---- MODULE Spec2Model ----
(***************************************************************************)
(* A model of the tracking notebook src/solution.py of dlmbl/08_tracking    *)
(* and of the detection notebook src/solution3_detection.py.  The programs  *)
(* of the notebooks are modelled each as its own specification over the     *)
(* same variables:                                                          *)
(*   SpecGT   read_gt_tracks: the loop over the rows of the annotation      *)
(*            table that builds the ground-truth lineage graph;             *)
(*   SpecSeg  nodes_from_segmentation: the loop over the frames and the     *)
(*            regions of a segmentation volume;                             *)
(*   Spec     the candidate-graph pipeline: add_cand_edges (its loop over   *)
(*            the frames), add_appear_ignore_attr, add_drift_dist_attr and  *)
(*            the four solves;                                              *)
(*   SpecPasses  the mutation passes of the candidate graph and             *)
(*            solve_drift_optimization: the notebook's order,               *)
(*            add_drift_dist_attr called before add_cand_edges, and each    *)
(*            pass called a second time;                                    *)
(*   SpecRelabel  relabel_segmentation: tracklet ids and the loop over the  *)
(*            nodes of a solution graph;                                    *)
(*   SpecAnn  the validation graph and add_gt_annotations: the loop over    *)
(*            the ground-truth nodes and the closing loop over the          *)
(*            candidate nodes;                                              *)
(*   SpecStages  the stages after node creation (add_cand_edges, the        *)
(*            feature tags, add_gt_annotations, a solve,                    *)
(*            relabel_segmentation, make_gt_detections), each one call,     *)
(*            in any order;                                                 *)
(*   SpecDet  the cells of the detection notebook: loading, preprocessing,  *)
(*            batch prediction, saving and loading the archive.             *)
(*                                                                         *)
(* A networkx DiGraph is a record [node, edge]: node maps a node id to its  *)
(* attribute dictionary, edge maps a pair <<u, v>> to the edge's attribute  *)
(* dictionary.  An attribute dictionary is a function from attribute names  *)
(* to values.  A Python int is [ty |-> "int", v |-> n]; a Python float is   *)
(* [ty |-> "float", v |-> k], the number k / FScale (fixed point: a float   *)
(* is the real number rounded to the grid the model resolves).              *)
(***************************************************************************)
EXTENDS Integers, Sequences, FiniteSets, TLC

VARIABLES
    \* read_gt_tracks
    rows,               \* the rows DictReader yields, each a record of text cells
    row_i,              \* index of the next row of the for loop
    gt_tracks,          \* the DiGraph being built
    gt_pc,              \* "idle" | "loop" | "done"
    \* nodes_from_segmentation
    segmentation,       \* the (t, y, x) label volume: a sequence of frames
    seg_t,              \* the frame of the outer loop
    props,              \* the regionprops of the frame still to be visited
    seg_graph,          \* the DiGraph being built
    seg_pc,             \* "idle" | "frame" | "region" | "done" | "AssertionError"
    \* candidate graph pipeline
    cand_graph,         \* the candidate DiGraph, mutated in place
    max_edge_distance,  \* argument of add_cand_edges (a float)
    frames,             \* sorted(node_frame_dict.keys())
    frame_i,            \* index into frames of the for loop
    prev_node_ids,      \* the list the loop carries from one frame to the next
    solver,             \* which solve ran: "none" | "basic" | "appear" | "drift" | "ssvm"
    solver_costs,       \* the costs of that solver, with the weights it solved under
    solution_graph,     \* the DiGraph the solve returned
    \* relabel_segmentation
    tracked_masks,      \* the volume being filled
    relabel_todo,       \* the nodes the for loop has still to visit
    \* add_gt_annotations, called with cand_graph bound to validation_graph
    notebook_cand_graph, \* the notebook's cand_graph, the graph validation_graph
                        \* is taken from
    validation_times,   \* the window [first, last) of the validation graph
    shared,             \* the nodes and edges whose attribute dictionaries
                        \* validation_graph shares with the notebook's cand_graph
    ann_todo,           \* the ground-truth nodes the first loop has still to visit
    last_cand_id,       \* cand_id of the last pass of the first loop
    \* the detection notebook (src/solution3_detection.py)
    image_files,        \* sorted((base_path / "images").glob("*.tif"))
    gt_files,           \* sorted((base_path / "gt_tracking").glob("*.tif"))
    x,                  \* the image series
    y,                  \* the label series
    detections,         \* batch outputs of the detector
    centers,
    center_probs,
    prob_maps,
    archive,            \* the file detected.npz
    det,                \* what np.load gave
    det_pc,             \* "idle" | "load" | "loaded" | "preprocessed" | "predicted"
                        \* | "saved" | the exception raised
    \* make_gt_detections
    gt_dets,            \* the volume make_gt_detections returned
    pc                  \* position in the notebook: "start", "edges" (inside
                        \* add_cand_edges), "edges_done", "basic_solved",
                        \* "appear_done", "appear_solved", "drift_done",
                        \* "drift_solved", "ssvm_solved", "basic_resolved",
                        \* "drift_first", "edges_late", "drift_solved_late",
                        \* "edges_redone", "appear_redone", "drift_redone",
                        \* "relabel", "relabel_loop", "relabelled",
                        \* "validation", "annotate", "annotate_loop", "annotated",
                        \* "stages",
                        \* or the exception raised

gtVars == <<rows, row_i, gt_tracks, gt_pc>>
segVars == <<segmentation, seg_t, props, seg_graph, seg_pc>>
trackVars == <<cand_graph, max_edge_distance, frames, frame_i, prev_node_ids,
               solver, solver_costs, solution_graph, pc>>
relabelVars == <<tracked_masks, relabel_todo>>
annVars == <<notebook_cand_graph, validation_times, shared, ann_todo, last_cand_id>>
detVars == <<image_files, gt_files, x, y, detections, centers, center_probs,
             prob_maps, archive, det, det_pc>>
evalVars == <<gt_dets>>
vars == <<rows, row_i, gt_tracks, gt_pc,
          segmentation, seg_t, props, seg_graph, seg_pc,
          cand_graph, max_edge_distance, frames, frame_i, prev_node_ids,
          solver, solver_costs, solution_graph, tracked_masks, relabel_todo,
          notebook_cand_graph, validation_times, shared, ann_todo, last_cand_id,
          image_files, gt_files, x, y, detections, centers, center_probs,
          prob_maps, archive, det, det_pc, gt_dets, pc>>

----------------------------------------------------------------------------
(* Bounds of the model *)

\* Floats are resolved to 1/FScale.
FScale == 4
\* Rows of the annotation table.
MaxRows == 3

----------------------------------------------------------------------------
(* Python values *)

\* a name that is not bound yet
Undefined == [undefined |-> TRUE]

PyIntV(n) == [ty |-> "int", v |-> n]
PyFloatV(k) == [ty |-> "float", v |-> k]

\* The decimal text of the integers a table cell holds.
IntText(n) ==
    CASE n = -1 -> "-1" [] n = 0 -> "0" [] n = 1 -> "1" [] n = 2 -> "2"
      [] n = 3 -> "3" [] n = 4 -> "4" [] n = 5 -> "5" [] n = 6 -> "6"

\* int(text): the integer whose decimal text the cell holds.
PyInt(s) == CHOOSE n \in -1..6 : IntText(n) = s

\* float(text), for the decimal texts the tables of the model hold:
\* the value is num/den, resolved to the grid.
FloatNumDen(s) ==
    CASE s = "1.5" -> <<3, 2>>
      [] s = "2.75" -> <<11, 4>>
      [] s = "4.0" -> <<4, 1>>
PyFloat(s) == PyFloatV((FloatNumDen(s)[1] * FScale) \div FloatNumDen(s)[2])

----------------------------------------------------------------------------
(* networkx.DiGraph *)

NoAttrs == <<>>

\* nx.DiGraph()
DiGraph == [node |-> <<>>, edge |-> <<>>]

Nodes(G) == DOMAIN G.node
Edges(G) == DOMAIN G.edge

\* dict.update: the keys of new override those of old
Update(old, new) == new @@ old

\* G.add_node(n, **attrs): a new node gets attrs, a node already there has
\* its attribute dictionary updated with attrs.
add_node(G, n, attrs) ==
    [G EXCEPT !.node = IF n \in DOMAIN @
                       THEN [@ EXCEPT ![n] = Update(@, attrs)]
                       ELSE @ @@ (n :> attrs)]

\* G.add_edge(u, v): an endpoint that is no node yet is added with no
\* attributes; an edge already there keeps its attributes.
MutAddEdgeReversed(G, u, v) ==
    LET withU == IF u \in DOMAIN G.node THEN G.node ELSE G.node @@ (u :> NoAttrs)
        withV == IF v \in DOMAIN withU THEN withU ELSE withU @@ (v :> NoAttrs)
    IN  [node |-> withV,
         edge |-> IF <<v, u>> \in DOMAIN G.edge
                  THEN G.edge
                  ELSE G.edge @@ (<<v, u>> :> NoAttrs)]

add_edge(G, u, v) ==
    LET withU == IF u \in DOMAIN G.node THEN G.node ELSE G.node @@ (u :> NoAttrs)
        withV == IF v \in DOMAIN withU THEN withU ELSE withU @@ (v :> NoAttrs)
    IN  [node |-> withV,
         edge |-> IF <<u, v>> \in DOMAIN G.edge
                  THEN G.edge
                  ELSE G.edge @@ (<<u, v>> :> NoAttrs)]

predecessors(G, n) == {u \in Nodes(G) : <<u, n>> \in Edges(G)}
successors(G, n) == {v \in Nodes(G) : <<n, v>> \in Edges(G)}

----------------------------------------------------------------------------
(* read_gt_tracks *)

\* The ids a table of the model uses, and the cells of its other columns.
GtIds == 1..3
GtCells == {[time |-> "0", x |-> "1.5", y |-> "4.0"],
            [time |-> "1", x |-> "2.75", y |-> "1.5"]}

GtRow(id, parent, c) ==
    [id |-> IntText(id), time |-> c.time, x |-> c.x, y |-> c.y,
     parent_id |-> IntText(parent)]
GtRows == {GtRow(id, parent, c) : id \in GtIds, parent \in {-1} \cup GtIds,
                                  c \in GtCells}
GtTables == UNION {[1..n -> GtRows] : n \in 0..MaxRows}

\* The body of the for loop: one row.
MutReadRowKeepFirst(G, row) ==
    LET _id == PyInt(row.id)
        attrs == [x |-> PyFloat(row.x), y |-> PyFloat(row.y),
                  t |-> PyIntV(PyInt(row.time))]
        parent_id == PyInt(row.parent_id)
        G1 == IF _id \in Nodes(G) THEN G ELSE add_node(G, _id, attrs)
    IN  IF parent_id # -1 THEN add_edge(G1, parent_id, _id) ELSE G1

ReadRow(G, row) ==
    LET _id == PyInt(row.id)
        attrs == [x |-> PyFloat(row.x), y |-> PyFloat(row.y),
                  t |-> PyIntV(PyInt(row.time))]
        parent_id == PyInt(row.parent_id)
        G1 == add_node(G, _id, attrs)
    IN  IF parent_id # -1 THEN add_edge(G1, parent_id, _id) ELSE G1

\* read_gt_tracks run to its return on a table.
RECURSIVE ReadRowsFrom(_, _, _)
ReadRowsFrom(G, table, i) ==
    IF i > Len(table) THEN G ELSE ReadRowsFrom(ReadRow(G, table[i]), table, i + 1)
ReadGtTracks(table) == ReadRowsFrom(DiGraph, table, 1)

GtIdle ==
    /\ rows = <<>>
    /\ row_i = 0
    /\ gt_tracks = DiGraph
    /\ gt_pc = "idle"

GtInit ==
    /\ rows \in GtTables
    /\ row_i = 1
    /\ gt_tracks = DiGraph
    /\ gt_pc = "loop"

GtReadRow ==
    /\ gt_pc = "loop"
    /\ row_i <= Len(rows)
    /\ gt_tracks' = ReadRow(gt_tracks, rows[row_i])
    /\ row_i' = row_i + 1
    /\ UNCHANGED <<rows, gt_pc>>

GtReturn ==
    /\ gt_pc = "loop"
    /\ row_i > Len(rows)
    /\ gt_pc' = "done"
    /\ UNCHANGED <<rows, row_i, gt_tracks>>

----------------------------------------------------------------------------
(* nodes_from_segmentation *)

\* Largest label value of a segmentation of the model.
MaxLabel == 2
\* Shape (t, y, x) of the segmentation volumes of the model.
SegShape == <<2, 2, 2>>
SegPixels == (0..(SegShape[2] - 1)) \X (0..(SegShape[3] - 1))
SegFrames == [SegPixels -> 0..MaxLabel]
Segmentations == [1..SegShape[1] -> SegFrames]

\* sum of f[e] over the elements e of S
RECURSIVE SumOf(_, _)
SumOf(S, f) ==
    IF S = {} THEN 0
    ELSE LET e == CHOOSE e \in S : TRUE IN f[e] + SumOf(S \ {e}, f)

\* The elements of a set of integers as a list in ascending order.
RECURSIVE SortedSeq(_)
SortedSeq(S) ==
    IF S = {} THEN <<>>
    ELSE LET m == CHOOSE m \in S : \A o \in S : m <= o
         IN  <<m>> \o SortedSeq(S \ {m})

\* The labels regionprops gives a region for: the positive ones.
MutRegionLabelsWithBackground(seg_frame) == {seg_frame[p] : p \in SegPixels}

RegionLabels(seg_frame) == {seg_frame[p] : p \in SegPixels} \ {0}

\* regionprop.centroid: the mean (row, column) of the pixels of the label.
Centroid(seg_frame, label) ==
    LET px == {p \in SegPixels : seg_frame[p] = label}
        row == [p \in SegPixels |-> p[1]]
        col == [p \in SegPixels |-> p[2]]
    IN  <<(SumOf(px, row) * FScale) \div Cardinality(px),
          (SumOf(px, col) * FScale) \div Cardinality(px)>>

\* skimage.measure.regionprops(seg_frame): one region per label, by label.
RegionProps(seg_frame) ==
    LET labels == SortedSeq(RegionLabels(seg_frame))
    IN  [i \in 1..Len(labels) |->
            [label |-> labels[i], centroid |-> Centroid(seg_frame, labels[i])]]

\* The attributes of the node made for a region of frame t.
RegionAttrs(t, regionprop) ==
    [t |-> PyIntV(t),
     x |-> PyFloatV(regionprop.centroid[1]),
     y |-> PyFloatV(regionprop.centroid[2])]

\* assert node_id not in cand_graph.nodes
MutAssertDropped(G, node_id) == TRUE

AssertNotInGraph(G, node_id) == node_id \notin Nodes(G)

SegIdle ==
    /\ segmentation = <<>>
    /\ seg_t = 0
    /\ props = <<>>
    /\ seg_graph = DiGraph
    /\ seg_pc = "idle"

SegInit ==
    /\ segmentation \in Segmentations
    /\ seg_t = 0
    /\ props = <<>>
    /\ seg_graph = DiGraph
    /\ seg_pc = "frame"

\* for t in range(len(segmentation)): props = regionprops(segmentation[t])
SegFrame ==
    /\ seg_pc = "frame"
    /\ seg_t < Len(segmentation)
    /\ props' = RegionProps(segmentation[seg_t + 1])
    /\ seg_pc' = "region"
    /\ UNCHANGED <<segmentation, seg_t, seg_graph>>

\* for regionprop in props: the assertion holds and the node is added
SegRegion ==
    /\ seg_pc = "region"
    /\ props # <<>>
    /\ AssertNotInGraph(seg_graph, Head(props).label)
    /\ seg_graph' = add_node(seg_graph, Head(props).label,
                             RegionAttrs(seg_t, Head(props)))
    /\ props' = Tail(props)
    /\ UNCHANGED <<segmentation, seg_t, seg_pc>>

\* for regionprop in props: the assertion fails
SegAssertFail ==
    /\ seg_pc = "region"
    /\ props # <<>>
    /\ ~AssertNotInGraph(seg_graph, Head(props).label)
    /\ seg_pc' = "AssertionError"
    /\ UNCHANGED <<segmentation, seg_t, props, seg_graph>>

\* the regions of the frame are exhausted: the next t
SegNextFrame ==
    /\ seg_pc = "region"
    /\ props = <<>>
    /\ seg_t' = seg_t + 1
    /\ seg_pc' = "frame"
    /\ UNCHANGED <<segmentation, props, seg_graph>>

\* return cand_graph
SegReturn ==
    /\ seg_pc = "frame"
    /\ seg_t >= Len(segmentation)
    /\ seg_pc' = "done"
    /\ UNCHANGED <<segmentation, seg_t, props, seg_graph>>

----------------------------------------------------------------------------
(* The candidate graph: add_cand_edges *)

\* Nodes of a candidate graph of the model, and its last frame.
MaxNodes == 3
MaxFrame == 3
\* The (x, y) positions, in pixels, the nodes of the model lie at, and the
\* max_edge_distance values add_cand_edges is called with.
TrackPositions == {<<670, 40>>, <<700, 0>>, <<710, 0>>}
EdgeDistances == {50}

FrameOf(G, n) == G.node[n]["t"].v
Pos(G, n) == <<G.node[n]["x"].v, G.node[n]["y"].v>>

\* The candidate graphs with nodes only.  Node ids are numbered in frame
\* order (any graph is one of these up to the naming of its nodes); frames
\* may be missing between the first and the last.
CandNodeAttrs(t, p) ==
    [t |-> PyIntV(t), x |-> PyFloatV(p[1] * FScale), y |-> PyFloatV(p[2] * FScale)]
NodeGraphs ==
    {[node |-> [i \in 1..n |-> CandNodeAttrs(ts[i], ps[i])], edge |-> <<>>] :
        <<n, ts, ps>> \in
            {c \in UNION {{n} \X [1..n -> 0..MaxFrame] \X [1..n -> TrackPositions] :
                            n \in 0..MaxNodes} :
                \A i \in 1..(c[1] - 1) : c[2][i] <= c[2][i + 1]}}

\* _compute_node_frame_dict: frame -> list of the node ids of the frame, in
\* the order the graph lists its nodes (ascending ids in the model).
NodeFrameDict(G) ==
    [t \in {FrameOf(G, n) : n \in Nodes(G)} |->
        SortedSeq({n \in Nodes(G) : FrameOf(G, n) = t})]

\* create_kdtree: the list of the positions of node_ids, in their order.
create_kdtree(G, node_ids) == [i \in 1..Len(node_ids) |-> Pos(G, node_ids[i])]

\* squared Euclidean distance of two positions
Dist2(p, q) == (p[1] - q[1]) * (p[1] - q[1]) + (p[2] - q[2]) * (p[2] - q[2])

\* KDTree.query_ball_tree(other, r): for each point of the tree, the indices
\* of the points of other at distance at most r.
query_ball_tree(tree, other, r) ==
    [i \in 1..Len(tree) |-> {j \in 1..Len(other) : Dist2(tree[i], other[j]) <= r * r}]

RECURSIVE AddEdges(_, _)
AddEdges(G, pairs) ==
    IF pairs = {} THEN G
    ELSE LET e == CHOOSE e \in pairs : TRUE
         IN  AddEdges(add_edge(G, e[1], e[2]), pairs \ {e})

Min(a, b) == IF a <= b THEN a ELSE b

\* The pairs the two inner for loops (lines 376-379) pass to add_edge:
\* zip(prev_node_ids, matched_indices) pairs the ids of prev_node_ids with
\* the matches of the points of prev_kdtree.
MatchedPairs(G, prev_ids, next_node_ids, r) ==
    LET prev_kdtree == create_kdtree(G, prev_ids)
        next_kdtree == create_kdtree(G, next_node_ids)
        matched_indices == query_ball_tree(prev_kdtree, next_kdtree, r)
    IN  {<<prev_ids[i], next_node_ids[j]>> :
            <<i, j>> \in {ij \in (1..Min(Len(prev_ids), Len(matched_indices)))
                                   \X (1..Len(next_node_ids)) :
                             ij[2] \in matched_indices[ij[1]]}}

\* add_cand_edges(cand_graph, max_edge_distance) run from its for loop to its
\* return, for a graph that has a node: the pass for frames[i] with the list
\* prev_ids carried over from the pass before.
RECURSIVE CandEdgesFrom(_, _, _, _, _)
CandEdgesFrom(G, r, sorted_frames, i, prev_ids) ==
    IF i > Len(sorted_frames) THEN G
    ELSE IF sorted_frames[i] + 1 \notin DOMAIN NodeFrameDict(G)
    THEN CandEdgesFrom(G, r, sorted_frames, i + 1, prev_ids)
    ELSE LET next_node_ids == NodeFrameDict(G)[sorted_frames[i] + 1]
         IN  CandEdgesFrom(AddEdges(G, MatchedPairs(G, prev_ids, next_node_ids, r)),
                           r, sorted_frames, i + 1, next_node_ids)
add_cand_edges(G, D) ==
    LET node_frame_dict == NodeFrameDict(G)
        sorted_frames == SortedSeq(DOMAIN node_frame_dict)
    IN  CandEdgesFrom(G, D.v, sorted_frames, 1, node_frame_dict[sorted_frames[1]])

\* motile.Solver(cand_trackgraph) before any add_cost: no cost term
NoCosts ==
    [edge_attr |-> "none", weight |-> 0, constant |-> 0,
     appear |-> 0, ignore |-> "none", split |-> 0]

TrackIdle ==
    /\ cand_graph = DiGraph
    /\ max_edge_distance = PyFloatV(0)
    /\ frames = <<>>
    /\ frame_i = 0
    /\ prev_node_ids = <<>>
    /\ solver = "none"
    /\ solver_costs = NoCosts
    /\ solution_graph = DiGraph
    /\ pc = "idle"

TrackInit ==
    /\ cand_graph \in NodeGraphs
    /\ max_edge_distance \in {PyFloatV(d * FScale) : d \in EdgeDistances}
    /\ frames = <<>>
    /\ frame_i = 0
    /\ prev_node_ids = <<>>
    /\ solver = "none"
    /\ solver_costs = NoCosts
    /\ solution_graph = DiGraph
    /\ pc = "start"

\* add_cand_edges up to its for loop (lines 362-366); frames[0] of a graph
\* with no node raises IndexError.
EdgesStart ==
    /\ pc = "start"
    /\ LET node_frame_dict == NodeFrameDict(cand_graph)
           sorted == SortedSeq(DOMAIN node_frame_dict)
       IN  IF sorted = <<>>
           THEN /\ pc' = "IndexError"
                /\ UNCHANGED <<frames, frame_i, prev_node_ids>>
           ELSE /\ frames' = sorted
                /\ frame_i' = 1
                /\ prev_node_ids' = node_frame_dict[sorted[1]]
                /\ pc' = "edges"
    /\ UNCHANGED <<cand_graph, max_edge_distance, solver, solver_costs, solution_graph>>

\* One pass of the for loop for a frame with no successor frame: continue.
EdgesSkip ==
    /\ pc = "edges"
    /\ frame_i <= Len(frames)
    /\ frames[frame_i] + 1 \notin DOMAIN NodeFrameDict(cand_graph)
    /\ frame_i' = frame_i + 1
    /\ UNCHANGED <<cand_graph, max_edge_distance, frames, prev_node_ids,
                   solver, solver_costs, solution_graph, pc>>

\* One pass of the for loop for a frame whose successor frame is present
\* (lines 370-381).  prev_kdtree is the tree of prev_node_ids.
EdgesLink ==
    /\ pc = "edges"
    /\ frame_i <= Len(frames)
    /\ frames[frame_i] + 1 \in DOMAIN NodeFrameDict(cand_graph)
    /\ LET next_node_ids == NodeFrameDict(cand_graph)[frames[frame_i] + 1]
           pairs == MatchedPairs(cand_graph, prev_node_ids, next_node_ids,
                                 max_edge_distance.v)
       IN  /\ cand_graph' = AddEdges(cand_graph, pairs)
           /\ prev_node_ids' = next_node_ids
    /\ frame_i' = frame_i + 1
    /\ UNCHANGED <<max_edge_distance, frames, solver, solver_costs, solution_graph, pc>>

\* The for loop is exhausted: add_cand_edges returns.
EdgesReturn ==
    /\ pc = "edges"
    /\ frame_i > Len(frames)
    /\ pc' = "edges_done"
    /\ UNCHANGED <<cand_graph, max_edge_distance, frames, frame_i, prev_node_ids,
                   solver, solver_costs, solution_graph>>

----------------------------------------------------------------------------
(* The feature tags: add_appear_ignore_attr, add_drift_dist_attr *)

\* the boundary of add_appear_ignore_attr, in pixels
BoundaryX == 710
\* drift = np.array([-10, 0])
drift == <<-10, 0>>

\* floor of the square root, by bisection
RECURSIVE SqrtBetween(_, _, _)
SqrtBetween(n, lo, hi) ==
    IF lo >= hi THEN lo
    ELSE LET mid == (lo + hi + 1) \div 2
         IN  IF mid * mid <= n THEN SqrtBetween(n, mid, hi)
                               ELSE SqrtBetween(n, lo, mid - 1)
ISqrt(n) == SqrtBetween(n, 0, n)

\* np.linalg.norm of a 2-vector, resolved to the grid
Norm(d) == ISqrt(d[1] * d[1] + d[2] * d[2])

\* The loop body with pos_x > 710 in place of pos_x >= 710.
MutAppearIgnoreStrictlyBeyond(attrs) ==
    IF attrs["t"].v = 0 \/ attrs["x"].v > BoundaryX * FScale
    THEN Update(attrs, [ignore_appear |-> TRUE])
    ELSE attrs

\* The loop body of add_appear_ignore_attr for one node.
AppearIgnoreAttrs(attrs) ==
    IF attrs["t"].v = 0 \/ attrs["x"].v >= BoundaryX * FScale
    THEN Update(attrs, [ignore_appear |-> TRUE])
    ELSE attrs

\* The loop body with source_pos - drift in place of source_pos + drift.
MutDriftDistAgainstDrift(G, d, edge) ==
    LET source_pos == Pos(G, edge[1])
        target_pos == Pos(G, edge[2])
        expected_target_pos == <<source_pos[1] - d[1] * FScale,
                                 source_pos[2] - d[2] * FScale>>
    IN  PyFloatV(Norm(<<expected_target_pos[1] - target_pos[1],
                        expected_target_pos[2] - target_pos[2]>>))

\* The loop body of add_drift_dist_attr for one edge.
DriftDist(G, d, edge) ==
    LET source_pos == Pos(G, edge[1])
        target_pos == Pos(G, edge[2])
        expected_target_pos == <<source_pos[1] + d[1] * FScale,
                                 source_pos[2] + d[2] * FScale>>
    IN  PyFloatV(Norm(<<expected_target_pos[1] - target_pos[1],
                        expected_target_pos[2] - target_pos[2]>>))

\* The loop over the nodes flipping a flag that is already there.
MutAddAppearIgnoreAttrFlips(G) ==
    [G EXCEPT !.node =
        [n \in DOMAIN @ |->
            IF "ignore_appear" \in DOMAIN @[n]
            THEN Update(@[n], [ignore_appear |-> ~@[n]["ignore_appear"]])
            ELSE AppearIgnoreAttrs(@[n])]]

\* add_appear_ignore_attr(cand_graph): the loop over the nodes
add_appear_ignore_attr(G) ==
    [G EXCEPT !.node = [n \in DOMAIN @ |-> AppearIgnoreAttrs(@[n])]]

\* The loop over the edges leaving the first frame only.
MutAddDriftDistAttrFirstFrame(G, d) ==
    [G EXCEPT !.edge = [e \in DOMAIN @ |->
                          IF FrameOf(G, e[1]) = 0
                          THEN Update(@[e], [drift_dist |-> DriftDist(G, d, e)])
                          ELSE @[e]]]

\* add_drift_dist_attr(cand_graph, drift): the loop over the edges
add_drift_dist_attr(G, d) ==
    [G EXCEPT !.edge = [e \in DOMAIN @ |->
                          Update(@[e], [drift_dist |-> DriftDist(G, d, e)])]]

\* add_appear_ignore_attr(cand_graph)
AddAppearIgnoreAttr ==
    /\ pc \in {"edges_done", "basic_solved"}
    /\ cand_graph' = add_appear_ignore_attr(cand_graph)
    /\ pc' = "appear_done"
    /\ UNCHANGED <<max_edge_distance, frames, frame_i, prev_node_ids,
                   solver, solver_costs, solution_graph>>

\* add_drift_dist_attr(cand_graph, drift)
AddDriftDistAttr ==
    /\ pc \in {"appear_done", "appear_solved"}
    /\ cand_graph' = add_drift_dist_attr(cand_graph, drift)
    /\ pc' = "drift_done"
    /\ UNCHANGED <<max_edge_distance, frames, frame_i, prev_node_ids,
                   solver, solver_costs, solution_graph>>

----------------------------------------------------------------------------
(* The solves: motile.Solver over motile.TrackGraph(cand_graph) *)

\* MaxParents(1), MaxChildren(2)
MaxParents == 1
MaxChildren == 2

\* The costs each solve adds.  edge_attr "distance" is EdgeDistance over
\* ("x", "y"); any other edge_attr is EdgeSelection over that attribute.
\* ignore is Appear's ignore_attribute (or none); split is Split's constant
\* (0: no Split cost).
BasicCosts ==
    [edge_attr |-> "distance", weight |-> 1, constant |-> -20,
     appear |-> 1, ignore |-> "none", split |-> 0]
AppearCosts ==
    [edge_attr |-> "distance", weight |-> 1, constant |-> -20,
     appear |-> 10, ignore |-> "ignore_appear", split |-> 0]
DriftCosts ==
    [edge_attr |-> "drift_dist", weight |-> 1, constant |-> -30,
     appear |-> 100, ignore |-> "ignore_appear", split |-> 20]
\* get_ssvm_solver, and the weight vectors solver.weights is set to:
\* (EdgeSelection weight, EdgeSelection constant, Appear constant, Split constant)
SsvmCosts ==
    [edge_attr |-> "drift_dist", weight |-> 1, constant |-> -30,
     appear |-> 20, ignore |-> "ignore_appear", split |-> 20]
SsvmWeights == {<<1, -30, 20, 20>>, <<2, -60, 5, 0>>, <<1, -10, -5, 40>>,
                <<1, 10, 20, 20>>}
WithWeights(costs, w) ==
    [costs EXCEPT !.weight = w[1], !.constant = w[2], !.appear = w[3], !.split = w[4]]

\* A selection: the nodes and edges whose indicator is 1.
SelParents(sel, n) == {e \in sel.e : e[2] = n}
SelChildren(sel, n) == {e \in sel.e : e[1] = n}

\* The constraints without the solver's own: an edge may be selected without
\* its nodes.
MutFeasibleNoIncidence(G) ==
    {sel \in [n : SUBSET Nodes(G), e : SUBSET Edges(G)] :
        /\ \A n \in Nodes(G) : Cardinality(SelParents(sel, n)) <= MaxParents
        /\ \A n \in Nodes(G) : Cardinality(SelChildren(sel, n)) <= MaxChildren}

\* The constraints: an edge is selected only with both its nodes (the
\* solver's own), MaxParents, MaxChildren.
Feasible(G) ==
    {sel \in [n : SUBSET Nodes(G), e : SUBSET Edges(G)] :
        /\ \A e \in sel.e : e[1] \in sel.n /\ e[2] \in sel.n
        /\ \A n \in sel.n : Cardinality(SelParents(sel, n)) <= MaxParents
        /\ \A n \in sel.n : Cardinality(SelChildren(sel, n)) <= MaxChildren}

\* The edge attributes the costs read are there (else KeyError).
CostsReadable(G, costs) ==
    costs.edge_attr = "distance"
        \/ \A e \in Edges(G) : costs.edge_attr \in DOMAIN G.edge[e]

\* cost of a selected edge: weight * feature + constant
EdgeCost(G, costs, e) ==
    LET feature == IF costs.edge_attr = "distance"
                   THEN Norm(<<Pos(G, e[1])[1] - Pos(G, e[2])[1],
                               Pos(G, e[1])[2] - Pos(G, e[2])[2]>>)
                   ELSE G.edge[e][costs.edge_attr].v
    IN  costs.weight * feature + costs.constant * FScale

\* Appear reads the attribute ignore_appear whatever ignore_attribute it was
\* built with.
MutIgnoredInAnyConfiguration(G, costs, n) ==
    /\ "ignore_appear" \in DOMAIN G.node[n]
    /\ G.node[n]["ignore_appear"] = TRUE

\* A selected node with no selected incoming edge appears; Appear charges it
\* unless its ignore_attribute is set and true.
Ignored(G, costs, n) ==
    /\ costs.ignore \in DOMAIN G.node[n]
    /\ G.node[n][costs.ignore] = TRUE
AppearCost(G, costs, sel, n) ==
    IF SelParents(sel, n) = {} /\ ~Ignored(G, costs, n)
    THEN costs.appear * FScale ELSE 0

\* A selected node with more than one selected outgoing edge splits.
SplitCost(G, costs, sel, n) ==
    IF Cardinality(SelChildren(sel, n)) > 1 THEN costs.split * FScale ELSE 0

\* what the Appear cost adds to the objective of a selection
AppearCharge(G, costs, sel) ==
    SumOf(sel.n, [n \in sel.n |-> AppearCost(G, costs, sel, n)])

Objective(G, costs, sel) ==
    SumOf(sel.e, [e \in sel.e |-> EdgeCost(G, costs, e)])
    + SumOf(sel.n, [n \in sel.n |-> AppearCost(G, costs, sel, n)
                                    + SplitCost(G, costs, sel, n)])

\* solver.solve(): the feasible selections of least objective
Solutions(G, costs) ==
    LET scored == {<<sel, Objective(G, costs, sel)>> : sel \in Feasible(G)}
        values == {p[2] : p \in scored}
        least == CHOOSE m \in values : \A o \in values : m <= o
    IN  {p[1] : p \in {q \in scored : q[2] = least}}

\* graph_to_nx(solver.get_selected_subgraph())
SelectedSubgraph(G, sel) ==
    [node |-> [n \in sel.n |-> G.node[n]], edge |-> [e \in sel.e |-> G.edge[e]]]

Solve(name, costs, after) ==
    /\ IF CostsReadable(cand_graph, costs)
       THEN /\ \E sel \in Solutions(cand_graph, costs) :
                  solution_graph' = SelectedSubgraph(cand_graph, sel)
            /\ solver' = name
            /\ solver_costs' = costs
            /\ pc' = after
       ELSE /\ pc' = "KeyError"
            /\ UNCHANGED <<solver, solver_costs, solution_graph>>
    /\ UNCHANGED <<cand_graph, max_edge_distance, frames, frame_i, prev_node_ids>>

\* solution_graph = solve_basic_optimization(cand_graph): the notebook's call
\* on the untagged graph, and a call on the graph once add_appear_ignore_attr
\* has tagged it (the function takes any candidate graph).
SolveBasic ==
    /\ pc \in {"edges_done", "appear_done"}
    /\ Solve("basic", BasicCosts,
             IF pc = "edges_done" THEN "basic_solved" ELSE "basic_resolved")

\* solution_graph = solve_appear_optimization(cand_graph)
SolveAppear ==
    /\ pc = "appear_done"
    /\ Solve("appear", AppearCosts, "appear_solved")

\* solution_graph = solve_drift_optimization(cand_graph): the notebook's call
\* after add_drift_dist_attr, and the call of an execution that added the
\* edges after it.
SolveDrift ==
    /\ pc \in {"drift_done", "edges_late"}
    /\ Solve("drift", DriftCosts,
             IF pc = "drift_done" THEN "drift_solved" ELSE "drift_solved_late")

\* solution_graph = get_ssvm_solution(cand_graph, optimal_weights)
SolveSsvm ==
    /\ pc \in {"drift_done", "drift_solved"}
    /\ \E w \in SsvmWeights : Solve("ssvm", WithWeights(SsvmCosts, w), "ssvm_solved")

----------------------------------------------------------------------------
(* The cells of the feature tags run out of order, and the mutation passes  *)
(* run a second time.  Each action is one call, from entry to return.       *)

\* add_drift_dist_attr(cand_graph, drift) as the first call after the nodes
\* are made: add_cand_edges has not run yet
AddDriftDistAttrFirst ==
    /\ pc = "start"
    /\ cand_graph' = add_drift_dist_attr(cand_graph, drift)
    /\ pc' = "drift_first"
    /\ UNCHANGED <<max_edge_distance, frames, frame_i, prev_node_ids,
                   solver, solver_costs, solution_graph>>

\* add_cand_edges(cand_graph, max_edge_distance) after add_drift_dist_attr
AddCandEdgesLate ==
    /\ pc = "drift_first"
    /\ IF Nodes(cand_graph) = {}
       THEN /\ pc' = "IndexError"
            /\ UNCHANGED cand_graph
       ELSE /\ cand_graph' = add_cand_edges(cand_graph, max_edge_distance)
            /\ pc' = "edges_late"
    /\ UNCHANGED <<max_edge_distance, frames, frame_i, prev_node_ids,
                   solver, solver_costs, solution_graph>>

\* add_cand_edges(cand_graph, max_edge_distance) called again on the graph
\* it returned
AddCandEdgesAgain ==
    /\ pc = "edges_done"
    /\ cand_graph' = add_cand_edges(cand_graph, max_edge_distance)
    /\ pc' = "edges_redone"
    /\ UNCHANGED <<max_edge_distance, frames, frame_i, prev_node_ids,
                   solver, solver_costs, solution_graph>>

\* add_appear_ignore_attr(cand_graph) called again on the graph it tagged
AddAppearIgnoreAttrAgain ==
    /\ pc = "appear_done"
    /\ cand_graph' = add_appear_ignore_attr(cand_graph)
    /\ pc' = "appear_redone"
    /\ UNCHANGED <<max_edge_distance, frames, frame_i, prev_node_ids,
                   solver, solver_costs, solution_graph>>

\* add_drift_dist_attr(cand_graph, drift) called again on the graph it tagged
AddDriftDistAttrAgain ==
    /\ pc = "drift_done"
    /\ cand_graph' = add_drift_dist_attr(cand_graph, drift)
    /\ pc' = "drift_redone"
    /\ UNCHANGED <<max_edge_distance, frames, frame_i, prev_node_ids,
                   solver, solver_costs, solution_graph>>

----------------------------------------------------------------------------
(* relabel_segmentation *)

\* Largest label of the volumes relabel_segmentation is run on.
MaxTrackLabel == 3
\* The frames whose detections lie in the first pixel row, and the volumes of
\* such frames that nodes_from_segmentation accepts (no label in two frames).
RowFrames ==
    {[p \in SegPixels |-> IF p[1] = 0 THEN r[p[2]] ELSE 0] :
        r \in [0..(SegShape[3] - 1) -> 0..MaxTrackLabel]}
RelabelVolumes ==
    {seg \in [1..SegShape[1] -> RowFrames] :
        \A t1 \in 1..SegShape[1], t2 \in 1..SegShape[1] :
            t1 # t2 => RegionLabels(seg[t1]) \cap RegionLabels(seg[t2]) = {}}

\* nodes_from_segmentation(seg), for a volume it accepts
RECURSIVE AddRegionNodes(_, _, _)
AddRegionNodes(G, t, regionprops) ==
    IF regionprops = <<>> THEN G
    ELSE AddRegionNodes(add_node(G, Head(regionprops).label,
                                 RegionAttrs(t, Head(regionprops))),
                        t, Tail(regionprops))
RECURSIVE NodesFromFrames(_, _, _)
NodesFromFrames(G, seg, t) ==
    IF t >= Len(seg) THEN G
    ELSE NodesFromFrames(AddRegionNodes(G, t, RegionProps(seg[t + 1])), seg, t + 1)
nodes_from_segmentation(seg) == NodesFromFrames(DiGraph, seg, 0)

\* The candidate graph of a volume when max_edge_distance spans the frame:
\* all pairs of nodes of adjacent frames are linked.
AdjacentPairs(G) ==
    {e \in Nodes(G) \X Nodes(G) : FrameOf(G, e[2]) = FrameOf(G, e[1]) + 1}
CandGraphOf(seg) ==
    LET G == nodes_from_segmentation(seg) IN AddEdges(G, AdjacentPairs(G))

\* assign_tracklet_ids (motile_toolbox): the edges out of a node with two or
\* more children are cut, each weakly connected component of what is left is
\* one tracklet, and the tracklets are numbered from 1.
TrackletEdges(G) == {e \in Edges(G) : Cardinality(successors(G, e[1])) < 2}
RECURSIVE Component(_, _)
Component(E, S) ==
    LET T == S \cup {e[2] : e \in {e \in E : e[1] \in S}}
               \cup {e[1] : e \in {e \in E : e[2] \in S}}
    IN  IF T = S THEN S ELSE Component(E, T)
Tracklets(G) == {Component(TrackletEdges(G), {n}) : n \in Nodes(G)}
TrackletNumberings(G) ==
    {f \in [Tracklets(G) -> 1..Cardinality(Tracklets(G))] :
        \A a \in Tracklets(G), b \in Tracklets(G) : a # b => f[a] # f[b]}
assign_tracklet_ids(G, numbering) ==
    [G EXCEPT !.node =
        [n \in DOMAIN @ |->
            Update(@[n], [tracklet_id |->
                PyIntV(numbering[Component(TrackletEdges(G), {n})])])]]

\* np.zeros_like(segmentation)
ZerosLike(seg) == [t \in DOMAIN seg |-> [p \in DOMAIN seg[t] |-> 0]]

\* The loop body writing the node id in place of the track id.
MutRelabelWithNodeId(masks, seg, G, node) ==
    LET time_frame == G.node[node]["t"].v
        previous_seg_id == node
    IN  [masks EXCEPT ![time_frame + 1] =
            [p \in DOMAIN @ |->
                IF seg[time_frame + 1][p] = previous_seg_id
                THEN previous_seg_id ELSE @[p]]]

\* The loop body of relabel_segmentation for one node: the pixels of the
\* node's frame that carry its id get its track id.
RelabelNodePixels(masks, seg, G, node) ==
    LET time_frame == G.node[node]["t"].v
        previous_seg_id == node
        track_id == G.node[node]["tracklet_id"].v
    IN  [masks EXCEPT ![time_frame + 1] =
            [p \in DOMAIN @ |->
                IF seg[time_frame + 1][p] = previous_seg_id
                THEN track_id ELSE @[p]]]

RelabelIdle ==
    /\ tracked_masks = <<>>
    /\ relabel_todo = <<>>

\* solution_seg = relabel_segmentation(solution_graph, segmentation) is about
\* to be called: the volume, its candidate graph and a solution graph the
\* constraints allow.
RelabelInit ==
    /\ segmentation \in RelabelVolumes
    /\ seg_t = 0
    /\ props = <<>>
    /\ seg_graph = DiGraph
    /\ seg_pc = "idle"
    /\ cand_graph = CandGraphOf(segmentation)
    /\ max_edge_distance = PyFloatV(0)
    /\ frames = <<>>
    /\ frame_i = 0
    /\ prev_node_ids = <<>>
    /\ solver = "none"
    /\ solver_costs = NoCosts
    /\ solution_graph \in {SelectedSubgraph(cand_graph, sel) : sel \in Feasible(cand_graph)}
    /\ tracked_masks = <<>>
    /\ relabel_todo = <<>>
    /\ pc = "relabel"

\* assign_tracklet_ids(solution_nx_graph); tracked_masks = np.zeros_like(...)
RelabelStart ==
    /\ pc = "relabel"
    /\ \E numbering \in TrackletNumberings(solution_graph) :
          solution_graph' = assign_tracklet_ids(solution_graph, numbering)
    /\ tracked_masks' = ZerosLike(segmentation)
    /\ relabel_todo' = SortedSeq(Nodes(solution_graph))
    /\ pc' = "relabel_loop"
    /\ UNCHANGED <<cand_graph, max_edge_distance, frames, frame_i, prev_node_ids,
                   solver, solver_costs>>

\* for node, data in solution_nx_graph.nodes(data=True): one pass
RelabelNode ==
    /\ pc = "relabel_loop"
    /\ relabel_todo # <<>>
    /\ tracked_masks' = RelabelNodePixels(tracked_masks, segmentation,
                                         solution_graph, Head(relabel_todo))
    /\ relabel_todo' = Tail(relabel_todo)
    /\ UNCHANGED trackVars

\* return tracked_masks
RelabelReturn ==
    /\ pc = "relabel_loop"
    /\ relabel_todo = <<>>
    /\ pc' = "relabelled"
    /\ UNCHANGED <<cand_graph, max_edge_distance, frames, frame_i, prev_node_ids,
                   solver, solver_costs, solution_graph, tracked_masks, relabel_todo>>

----------------------------------------------------------------------------
(* add_gt_annotations *)

\* round(f) in place of int(f): the nearest integer, a half going up.
MutRoundInt(f) ==
    IF f.v >= 0 THEN (2 * f.v + FScale) \div (2 * FScale)
    ELSE -((2 * (-f.v) + FScale) \div (2 * FScale))

\* int(f) of a Python float: truncation toward zero
TruncInt(f) == IF f.v >= 0 THEN f.v \div FScale ELSE -((-f.v) \div FScale)

\* get_cand_id(gt_node, gt_track, cand_segmentation)
get_cand_id(gt_node, gt_track, cand_segmentation) ==
    LET data == gt_track.node[gt_node]
    IN  cand_segmentation[data["t"].v + 1][<<TruncInt(data["x"]), TruncInt(data["y"])>>]

\* The (x, y) a ground-truth node of the model lies at: in the first pixel
\* row, just short of the second pixel column or on it.
GtPositions == {<<0, FScale - 1>>, <<0, FScale>>}
GtAttrs(t, p) == [t |-> PyIntV(t), x |-> PyFloatV(p[1]), y |-> PyFloatV(p[2])]
\* The ground-truth graphs read_gt_tracks returns for a table with unique
\* ids in frame order where every parent has a row of the frame before.
GtGraphs ==
    UNION {
        {[node |-> [i \in 1..n |-> GtAttrs(ts[i], ps[i])],
          edge |-> [e \in {<<parent[i], i>> : i \in {j \in 1..n : parent[j] # 0}}
                        |-> NoAttrs]] :
            <<ts, ps, parent>> \in
                {c \in [1..n -> 0..(SegShape[1] - 1)] \X [1..n -> GtPositions]
                          \X [1..n -> 0..n] :
                    /\ \A i \in 1..(n - 1) : c[1][i] <= c[1][i + 1]
                    /\ \A i \in 1..n :
                          c[3][i] # 0 => c[1][c[3][i]] + 1 = c[1][i]}} :
        n \in 1..Cardinality(GtIds)}

\* validation_times, and cand_graph.subgraph(validation_nodes).copy()
ValidationTimes == {<<0, 1>>, <<0, 2>>}
ValidationGraph(G, times) ==
    LET validation_nodes ==
            {n \in Nodes(G) : /\ FrameOf(G, n) >= times[1]
                              /\ FrameOf(G, n) < times[2]}
    IN  [node |-> [n \in validation_nodes |-> G.node[n]],
         edge |-> [e \in {e \in Edges(G) : e[1] \in validation_nodes
                                            /\ e[2] \in validation_nodes}
                    |-> G.edge[e]]]

\* The first loop's body without the test `cand_id in cand_graph`: the node
\* is added when it is missing.
MutAnnotateUnguarded(G, gt, seg, gt_node) ==
    LET cand_id == get_cand_id(gt_node, gt, seg)
    IN  IF cand_id # 0
        THEN LET marked == add_node(G, cand_id, [gt |-> TRUE])
                 gt_succ_matches ==
                     {get_cand_id(gt_succ, gt, seg) : gt_succ \in successors(gt, gt_node)}
             IN  [marked EXCEPT !.edge =
                    [e \in DOMAIN @ |->
                        IF e[1] = cand_id
                        THEN Update(@[e], [gt |-> e[2] \in gt_succ_matches])
                        ELSE @[e]]]
        ELSE G

\* The first loop's body for one ground-truth node (lines 919-930).
AnnotateFromGtNode(G, gt, seg, gt_node) ==
    LET cand_id == get_cand_id(gt_node, gt, seg)
    IN  IF cand_id # 0 /\ cand_id \in Nodes(G)
        THEN LET marked == [G EXCEPT !.node[cand_id] = Update(@, [gt |-> TRUE])]
                 gt_succ_matches ==
                     {get_cand_id(gt_succ, gt, seg) : gt_succ \in successors(gt, gt_node)}
             IN  [marked EXCEPT !.edge =
                    [e \in DOMAIN @ |->
                        IF e[1] = cand_id
                        THEN Update(@[e], [gt |-> e[2] \in gt_succ_matches])
                        ELSE @[e]]]
        ELSE G

\* The second loop (lines 931-933): a node with no gt gets gt = False.
DefaultGtFalse(G) ==
    [G EXCEPT !.node =
        [n \in DOMAIN @ |->
            IF "gt" \notin DOMAIN @[n] THEN Update(@[n], [gt |-> FALSE]) ELSE @[n]]]

\* G.subgraph(nodes) is a view of G: the attribute dictionaries of its nodes
\* and edges are G's own.
SharedByView(H) == [node |-> Nodes(H), edge |-> Edges(H)]

\* The view is kept: no copy is made.
MutSharedAfterCopyOfView(H) == SharedByView(H)

\* .copy() of the view: a graph with attribute dictionaries of its own, whose
\* entries are those of the view's.
SharedAfterCopy(H) == [node |-> {}, edge |-> {}]

\* What a write to the attribute dictionaries of H does to G: the
\* dictionaries the two share are one object.
WriteThrough(G, H, sh) ==
    [node |-> [n \in DOMAIN G.node |-> IF n \in sh.node THEN H.node[n] ELSE G.node[n]],
     edge |-> [e \in DOMAIN G.edge |-> IF e \in sh.edge THEN H.edge[e] ELSE G.edge[e]]]

AnnIdle ==
    /\ notebook_cand_graph = DiGraph
    /\ validation_times = <<>>
    /\ shared = [node |-> {}, edge |-> {}]
    /\ ann_todo = <<>>
    /\ last_cand_id = Undefined

\* The cell of the validation graph (lines 937-942) is about to run: the
\* notebook's cand_graph is the graph of the volume with its edges and its
\* feature tags.
AnnInit ==
    /\ segmentation \in RelabelVolumes
    /\ seg_t = 0
    /\ props = <<>>
    /\ seg_graph = DiGraph
    /\ seg_pc = "idle"
    /\ notebook_cand_graph =
          add_drift_dist_attr(add_appear_ignore_attr(CandGraphOf(segmentation)), drift)
    /\ validation_times \in ValidationTimes
    /\ shared = [node |-> {}, edge |-> {}]
    /\ last_cand_id = Undefined
    /\ cand_graph = DiGraph
    /\ rows = <<>>
    /\ row_i = 0
    /\ gt_tracks \in GtGraphs
    /\ gt_pc = "done"
    /\ max_edge_distance = PyFloatV(0)
    /\ frames = <<>>
    /\ frame_i = 0
    /\ prev_node_ids = <<>>
    /\ solver = "none"
    /\ solver_costs = NoCosts
    /\ solution_graph = DiGraph
    /\ ann_todo = <<>>
    /\ pc = "validation"

\* validation_graph = cand_graph.subgraph(validation_nodes).copy(), and the
\* call add_gt_annotations(gt_tracks, validation_graph, segmentation) binds
\* the function's cand_graph to it
MakeValidationGraph ==
    /\ pc = "validation"
    /\ cand_graph' = ValidationGraph(notebook_cand_graph, validation_times)
    /\ shared' = SharedAfterCopy(cand_graph')
    /\ pc' = "annotate"
    /\ UNCHANGED <<max_edge_distance, frames, frame_i, prev_node_ids,
                   solver, solver_costs, solution_graph>>
    /\ UNCHANGED <<notebook_cand_graph, validation_times, ann_todo, last_cand_id>>

\* for gt_node in gt_tracks.nodes(): the loop is entered
AnnStart ==
    /\ pc = "annotate"
    /\ ann_todo' = SortedSeq(Nodes(gt_tracks))
    /\ pc' = "annotate_loop"
    /\ UNCHANGED <<cand_graph, max_edge_distance, frames, frame_i, prev_node_ids,
                   solver, solver_costs, solution_graph>>
    /\ UNCHANGED <<notebook_cand_graph, validation_times, shared, last_cand_id>>

\* one pass of the first loop
AnnGtNode ==
    /\ pc = "annotate_loop"
    /\ ann_todo # <<>>
    /\ last_cand_id' = get_cand_id(Head(ann_todo), gt_tracks, segmentation)
    /\ cand_graph' = AnnotateFromGtNode(cand_graph, gt_tracks, segmentation,
                                        Head(ann_todo))
    /\ notebook_cand_graph' = WriteThrough(notebook_cand_graph, cand_graph', shared)
    /\ ann_todo' = Tail(ann_todo)
    /\ UNCHANGED <<max_edge_distance, frames, frame_i, prev_node_ids,
                   solver, solver_costs, solution_graph, pc>>
    /\ UNCHANGED <<validation_times, shared>>

\* the first loop is exhausted: the second loop runs and the function returns
AnnReturn ==
    /\ pc = "annotate_loop"
    /\ ann_todo = <<>>
    /\ cand_graph' = DefaultGtFalse(cand_graph)
    /\ notebook_cand_graph' = WriteThrough(notebook_cand_graph, cand_graph', shared)
    /\ pc' = "annotated"
    /\ UNCHANGED <<max_edge_distance, frames, frame_i, prev_node_ids,
                   solver, solver_costs, solution_graph>>
    /\ UNCHANGED <<validation_times, shared, ann_todo, last_cand_id>>

----------------------------------------------------------------------------
(* make_gt_detections *)

\* gt_dets = make_gt_detections(data_root["raw"].shape, gt_tracks, 10)
GtRadius == 10

\* skimage.draw.disk(center, radius, shape): the pixels of the frame at a
\* distance less than radius from center
disk(center, radius) ==
    {p \in SegPixels :
        (p[1] * FScale - center[1].v) * (p[1] * FScale - center[1].v)
        + (p[2] * FScale - center[2].v) * (p[2] * FScale - center[2].v)
            < (radius * FScale) * (radius * FScale)}

\* gt_tracks.nodes[node]["label"] = node, written under "t".
MutLabelAttrsUnderT(attrs, node) == Update(attrs, [t |-> PyIntV(node)])

\* gt_tracks.nodes[node]["label"] = node
LabelAttrs(attrs, node) == Update(attrs, [label |-> PyIntV(node)])

\* The for loop of make_gt_detections over the nodes still to visit: each
\* node gets its label and is drawn into the frame of its time.
RECURSIVE GtDetectionsFrom(_, _, _, _)
GtDetectionsFrom(G, volume, radius, todo) ==
    IF todo = <<>> THEN [gt_tracks |-> G, segmentation |-> volume]
    ELSE LET node == Head(todo)
             data == G.node[node]
             pos == <<data["x"], data["y"]>>
             time == data["t"].v
             rr_cc == disk(pos, radius)
         IN  GtDetectionsFrom(
                 [G EXCEPT !.node[node] = LabelAttrs(@, node)],
                 [volume EXCEPT ![time + 1] =
                     [p \in DOMAIN @ |-> IF p \in rr_cc THEN node ELSE @[p]]],
                 radius, Tail(todo))

\* make_gt_detections(data_shape, gt_tracks, radius), data_shape the shape of
\* the volume raw: the graph as the call leaves it and the volume returned
make_gt_detections(raw, G, radius) ==
    GtDetectionsFrom(G, ZerosLike(raw), radius, SortedSeq(Nodes(G)))

EvalIdle == gt_dets = <<>>

----------------------------------------------------------------------------
(* The stages after node creation, called in any order.  Each action is one *)
(* call, from entry to return.                                              *)

\* add_gt_annotations(gt_tracks, cand_graph, segmentation), both loops
RECURSIVE AnnotateFrom(_, _, _, _)
AnnotateFrom(G, gt, seg, todo) ==
    IF todo = <<>> THEN G
    ELSE AnnotateFrom(AnnotateFromGtNode(G, gt, seg, Head(todo)), gt, seg, Tail(todo))
add_gt_annotations(gt, G, seg) ==
    DefaultGtFalse(AnnotateFrom(G, gt, seg, SortedSeq(Nodes(gt))))

\* relabel_segmentation after its call of assign_tracklet_ids: the for loop
RECURSIVE RelabelFrom(_, _, _, _)
RelabelFrom(masks, seg, G, todo) ==
    IF todo = <<>> THEN masks
    ELSE RelabelFrom(RelabelNodePixels(masks, seg, G, Head(todo)), seg, G, Tail(todo))
relabel_segmentation(G, seg) ==
    RelabelFrom(ZerosLike(seg), seg, G, SortedSeq(Nodes(G)))

\* The labels of the first pixel row of the two frames of the volumes the
\* stages are run on, and the ground-truth graphs: those of one or two nodes.
StageRows == {<<1, 0, 2, 3>>, <<1, 2, 3, 3>>, <<1, 1, 2, 0>>, <<0, 1, 0, 0>>,
              <<0, 0, 0, 0>>}
StageVolumes ==
    {seg \in RelabelVolumes :
        <<seg[1][<<0, 0>>], seg[1][<<0, 1>>], seg[2][<<0, 0>>], seg[2][<<0, 1>>]>>
            \in StageRows}
StageGtGraphs == {g \in GtGraphs : Cardinality(Nodes(g)) <= 2}

\* cand_graph = nodes_from_segmentation(segmentation) has returned, and
\* gt_tracks = read_gt_tracks() has
StagesInit ==
    /\ segmentation \in StageVolumes
    /\ seg_t = 0
    /\ props = <<>>
    /\ seg_graph = DiGraph
    /\ seg_pc = "idle"
    /\ cand_graph = nodes_from_segmentation(segmentation)
    /\ rows = <<>>
    /\ row_i = 0
    /\ gt_tracks \in StageGtGraphs
    /\ gt_pc = "done"
    /\ max_edge_distance \in {PyFloatV(d * FScale) : d \in EdgeDistances}
    /\ frames = <<>>
    /\ frame_i = 0
    /\ prev_node_ids = <<>>
    /\ solver = "none"
    /\ solver_costs = NoCosts
    /\ solution_graph = DiGraph
    /\ tracked_masks = <<>>
    /\ relabel_todo = <<>>
    /\ gt_dets = <<>>
    /\ pc = "stages"

\* add_cand_edges(cand_graph, max_edge_distance=50)
StageAddCandEdges ==
    /\ pc = "stages"
    /\ IF Nodes(cand_graph) = {}
       THEN /\ pc' = "IndexError"
            /\ UNCHANGED cand_graph
       ELSE /\ cand_graph' = add_cand_edges(cand_graph, max_edge_distance)
            /\ UNCHANGED pc
    /\ UNCHANGED <<max_edge_distance, frames, frame_i, prev_node_ids,
                   solver, solver_costs, solution_graph>>
    /\ UNCHANGED <<gtVars, relabelVars, evalVars>>

\* add_appear_ignore_attr(cand_graph)
StageAddAppearIgnoreAttr ==
    /\ pc = "stages"
    /\ cand_graph' = add_appear_ignore_attr(cand_graph)
    /\ UNCHANGED <<max_edge_distance, frames, frame_i, prev_node_ids,
                   solver, solver_costs, solution_graph, pc>>
    /\ UNCHANGED <<gtVars, relabelVars, evalVars>>

\* add_drift_dist_attr(cand_graph, drift)
StageAddDriftDistAttr ==
    /\ pc = "stages"
    /\ cand_graph' = add_drift_dist_attr(cand_graph, drift)
    /\ UNCHANGED <<max_edge_distance, frames, frame_i, prev_node_ids,
                   solver, solver_costs, solution_graph, pc>>
    /\ UNCHANGED <<gtVars, relabelVars, evalVars>>

\* add_gt_annotations(gt_tracks, cand_graph, segmentation)
StageAddGtAnnotations ==
    /\ pc = "stages"
    /\ cand_graph' = add_gt_annotations(gt_tracks, cand_graph, segmentation)
    /\ UNCHANGED <<max_edge_distance, frames, frame_i, prev_node_ids,
                   solver, solver_costs, solution_graph, pc>>
    /\ UNCHANGED <<gtVars, relabelVars, evalVars>>

\* solution_graph = solve_basic_optimization(cand_graph)
StageSolve ==
    /\ pc = "stages"
    /\ Solve("basic", BasicCosts, "stages")
    /\ UNCHANGED <<gtVars, relabelVars, evalVars>>

\* solution_seg = relabel_segmentation(solution_graph, segmentation)
StageRelabelSegmentation ==
    /\ pc = "stages"
    /\ solver # "none"
    /\ \E numbering \in TrackletNumberings(solution_graph) :
          /\ solution_graph' = assign_tracklet_ids(solution_graph, numbering)
          /\ tracked_masks' = relabel_segmentation(solution_graph', segmentation)
    /\ UNCHANGED <<cand_graph, max_edge_distance, frames, frame_i, prev_node_ids,
                   solver, solver_costs, pc>>
    /\ UNCHANGED <<gtVars, relabel_todo, evalVars>>

\* gt_dets = make_gt_detections(data_root["raw"].shape, gt_tracks, 10)
StageMakeGtDetections ==
    /\ pc = "stages"
    /\ LET made == make_gt_detections(segmentation, gt_tracks, GtRadius)
       IN  /\ gt_tracks' = made.gt_tracks
           /\ gt_dets' = made.segmentation
    /\ UNCHANGED <<rows, row_i, gt_pc>>
    /\ UNCHANGED <<trackVars, relabelVars>>

----------------------------------------------------------------------------
(* The detection notebook: src/solution3_detection.py *)

\* Most files of a series, and most detections the detector finds in a frame.
MaxFiles == 3
MaxDetections == 2

\* A numpy array: its dtype, its shape and its items (nested by the first
\* axis).  A Python list is a sequence.
NdArray(dtype, shape, data) == [dtype |-> dtype, shape |-> shape, data |-> data]

\* np.stack / np.array of a non-empty list of arrays of one shape
Stacked(arrays) ==
    NdArray(arrays[1].dtype, <<Len(arrays)>> \o arrays[1].shape,
            [i \in 1..Len(arrays) |-> arrays[i].data])
SameShapes(arrays) == \A i \in 1..Len(arrays) : arrays[i].shape = arrays[1].shape

\* np.asanyarray of a list of arrays as numpy before 1.24 does it: arrays of
\* one shape are stacked, arrays of different shapes (a ragged list) become
\* a 1-d array of dtype object holding the arrays.
AsAnyArray(arrays) ==
    IF SameShapes(arrays) THEN Stacked(arrays)
    ELSE NdArray("object", <<Len(arrays)>>, arrays)

\* imread of the i-th file of a series
ImRead(series, i) == NdArray("uint16", <<1>>, [series |-> series, file |-> i])

\* the assert of the loading cell, as called there
SameLength(a, b) == Len(a) = Len(b)

\* normalize(x, 1, 99.8), fill_label_holes(y)
Normalized(img) == [img EXCEPT !.dtype = "float32", !.data = [@ EXCEPT !.series = "normalized"]]
HolesFilled(lbl) == [lbl EXCEPT !.data = [@ EXCEPT !.series = "filled"]]

\* model.predict_instances(xi, ...) for a frame where the detector finds k
\* objects: ((labels, details), (prob, dist)) with details["points"] of
\* shape (k, 2) and details["prob"] of shape (k,)
Predicted(xi, k) ==
    [labels |-> NdArray("int32", <<1>>, [labels_of |-> xi.data.file, objects |-> k]),
     points |-> NdArray("int64", <<k, 2>>, [j \in 1..k |-> <<j, xi.data.file>>]),
     prob |-> NdArray("float32", <<k>>, [j \in 1..k |-> j]),
     prob_map |-> NdArray("float32", <<1>>, [prob_of |-> xi.data.file])]

DetIdle ==
    /\ image_files = <<>>
    /\ gt_files = <<>>
    /\ x = Undefined
    /\ y = Undefined
    /\ detections = Undefined
    /\ centers = Undefined
    /\ center_probs = Undefined
    /\ prob_maps = Undefined
    /\ archive = Undefined
    /\ det = Undefined
    /\ det_pc = "idle"

DetInit ==
    /\ image_files \in {[i \in 1..n |-> i] : n \in 0..MaxFiles}
    /\ gt_files \in {[i \in 1..n |-> i] : n \in 0..MaxFiles}
    /\ x = Undefined
    /\ y = Undefined
    /\ detections = Undefined
    /\ centers = Undefined
    /\ center_probs = Undefined
    /\ prob_maps = Undefined
    /\ archive = Undefined
    /\ det = Undefined
    /\ det_pc = "load"

\* The loading cell (lines 94-101).  np.stack of an empty list raises
\* ValueError; the assert compares len(x) with len(x).
LoadDataset ==
    /\ det_pc = "load"
    /\ IF image_files = <<>> \/ gt_files = <<>>
       THEN /\ det_pc' = "ValueError"
            /\ UNCHANGED <<x, y>>
       ELSE LET stacked_x == [i \in 1..Len(image_files) |-> ImRead("images", image_files[i])]
                stacked_y == [i \in 1..Len(gt_files) |-> ImRead("gt_tracking", gt_files[i])]
            IN  /\ x' = stacked_x
                /\ y' = stacked_y
                /\ det_pc' = IF SameLength(stacked_x, stacked_x)
                             THEN "loaded" ELSE "AssertionError"
    /\ UNCHANGED <<image_files, gt_files, detections, centers, center_probs,
                   prob_maps, archive, det>>

\* x, y = preprocess(x, y)
Preprocess ==
    /\ det_pc = "loaded"
    /\ x' = [i \in 1..Len(x) |-> Normalized(x[i])]
    /\ y' = [i \in 1..Len(y) |-> HolesFilled(y[i])]
    /\ det_pc' = "preprocessed"
    /\ UNCHANGED <<image_files, gt_files, detections, centers, center_probs,
                   prob_maps, archive, det>>

\* The batch prediction cell (lines 134-142).
PredictBatch ==
    /\ det_pc = "preprocessed"
    /\ \E objects \in [1..Len(x) -> 0..MaxDetections] :
          LET pred == [i \in 1..Len(x) |-> Predicted(x[i], objects[i])]
          IN  /\ detections' = Stacked([i \in 1..Len(x) |-> pred[i].labels])
              /\ centers' = [i \in 1..Len(x) |-> pred[i].points]
              /\ center_probs' = [i \in 1..Len(x) |-> pred[i].prob]
              /\ prob_maps' = Stacked([i \in 1..Len(x) |-> pred[i].prob_map])
    /\ det_pc' = "predicted"
    /\ UNCHANGED <<image_files, gt_files, x, y, archive, det>>

\* np.savez(file, detections=..., centers=..., center_probs=..., prob_maps=...):
\* each entry goes through np.asanyarray.  For a ragged list numpy from 1.24
\* on raises ValueError, earlier numpy makes an object array.
SaveArchive ==
    /\ det_pc = "predicted"
    /\ \/ /\ archive' = [detections |-> detections,
                          centers |-> AsAnyArray(centers),
                          center_probs |-> AsAnyArray(center_probs),
                          prob_maps |-> prob_maps]
          /\ det_pc' = "saved"
       \/ /\ ~SameShapes(centers) \/ ~SameShapes(center_probs)
          /\ det_pc' = "ValueError"
          /\ UNCHANGED archive
    /\ UNCHANGED <<image_files, gt_files, x, y, detections, centers, center_probs,
                   prob_maps, det>>

\* The loading cell of the archive (lines 153-159).  Its second line,
\* `links = `, has no right-hand side: the cell does not compile, and none of
\* its statements runs.
LoadArchive ==
    /\ det_pc = "saved"
    /\ det_pc' = "SyntaxError"
    /\ UNCHANGED <<image_files, gt_files, x, y, detections, centers, center_probs,
                   prob_maps, archive, det>>

----------------------------------------------------------------------------
(* The specifications *)

Init == GtIdle /\ SegIdle /\ TrackInit /\ RelabelIdle /\ AnnIdle /\ DetIdle /\ EvalIdle
Next ==
    \/ EdgesStart /\ UNCHANGED <<gtVars, segVars, relabelVars, annVars, detVars, evalVars>>
    \/ EdgesSkip /\ UNCHANGED <<gtVars, segVars, relabelVars, annVars, detVars, evalVars>>
    \/ EdgesLink /\ UNCHANGED <<gtVars, segVars, relabelVars, annVars, detVars, evalVars>>
    \/ EdgesReturn /\ UNCHANGED <<gtVars, segVars, relabelVars, annVars, detVars, evalVars>>
    \/ AddAppearIgnoreAttr /\ UNCHANGED <<gtVars, segVars, relabelVars, annVars, detVars, evalVars>>
    \/ AddDriftDistAttr /\ UNCHANGED <<gtVars, segVars, relabelVars, annVars, detVars, evalVars>>
    \/ SolveBasic /\ UNCHANGED <<gtVars, segVars, relabelVars, annVars, detVars, evalVars>>
    \/ SolveAppear /\ UNCHANGED <<gtVars, segVars, relabelVars, annVars, detVars, evalVars>>
    \/ SolveDrift /\ UNCHANGED <<gtVars, segVars, relabelVars, annVars, detVars, evalVars>>
    \/ SolveSsvm /\ UNCHANGED <<gtVars, segVars, relabelVars, annVars, detVars, evalVars>>
Spec == Init /\ [][Next]_vars

InitPasses == GtIdle /\ SegIdle /\ TrackInit /\ RelabelIdle /\ AnnIdle /\ DetIdle /\ EvalIdle
NextPasses ==
    \/ EdgesStart /\ UNCHANGED <<gtVars, segVars, relabelVars, annVars, detVars, evalVars>>
    \/ EdgesSkip /\ UNCHANGED <<gtVars, segVars, relabelVars, annVars, detVars, evalVars>>
    \/ EdgesLink /\ UNCHANGED <<gtVars, segVars, relabelVars, annVars, detVars, evalVars>>
    \/ EdgesReturn /\ UNCHANGED <<gtVars, segVars, relabelVars, annVars, detVars, evalVars>>
    \/ AddAppearIgnoreAttr /\ UNCHANGED <<gtVars, segVars, relabelVars, annVars, detVars, evalVars>>
    \/ AddDriftDistAttr /\ UNCHANGED <<gtVars, segVars, relabelVars, annVars, detVars, evalVars>>
    \/ SolveDrift /\ UNCHANGED <<gtVars, segVars, relabelVars, annVars, detVars, evalVars>>
    \/ AddDriftDistAttrFirst /\ UNCHANGED <<gtVars, segVars, relabelVars, annVars, detVars, evalVars>>
    \/ AddCandEdgesLate /\ UNCHANGED <<gtVars, segVars, relabelVars, annVars, detVars, evalVars>>
    \/ AddCandEdgesAgain /\ UNCHANGED <<gtVars, segVars, relabelVars, annVars, detVars, evalVars>>
    \/ AddAppearIgnoreAttrAgain /\ UNCHANGED <<gtVars, segVars, relabelVars, annVars, detVars, evalVars>>
    \/ AddDriftDistAttrAgain /\ UNCHANGED <<gtVars, segVars, relabelVars, annVars, detVars, evalVars>>
SpecPasses == InitPasses /\ [][NextPasses]_vars

InitGT == GtInit /\ SegIdle /\ TrackIdle /\ RelabelIdle /\ AnnIdle /\ DetIdle /\ EvalIdle
NextGT ==
    \/ GtReadRow /\ UNCHANGED <<segVars, trackVars, relabelVars, annVars, detVars, evalVars>>
    \/ GtReturn /\ UNCHANGED <<segVars, trackVars, relabelVars, annVars, detVars, evalVars>>
SpecGT == InitGT /\ [][NextGT]_vars

InitSeg == GtIdle /\ SegInit /\ TrackIdle /\ RelabelIdle /\ AnnIdle /\ DetIdle /\ EvalIdle
NextSeg ==
    \/ SegFrame /\ UNCHANGED <<gtVars, trackVars, relabelVars, annVars, detVars, evalVars>>
    \/ SegRegion /\ UNCHANGED <<gtVars, trackVars, relabelVars, annVars, detVars, evalVars>>
    \/ SegAssertFail /\ UNCHANGED <<gtVars, trackVars, relabelVars, annVars, detVars, evalVars>>
    \/ SegNextFrame /\ UNCHANGED <<gtVars, trackVars, relabelVars, annVars, detVars, evalVars>>
    \/ SegReturn /\ UNCHANGED <<gtVars, trackVars, relabelVars, annVars, detVars, evalVars>>
SpecSeg == InitSeg /\ [][NextSeg]_vars

InitRelabel == GtIdle /\ RelabelInit /\ AnnIdle /\ DetIdle /\ EvalIdle
NextRelabel ==
    \/ RelabelStart /\ UNCHANGED <<gtVars, segVars, annVars, detVars, evalVars>>
    \/ RelabelNode /\ UNCHANGED <<gtVars, segVars, annVars, detVars, evalVars>>
    \/ RelabelReturn /\ UNCHANGED <<gtVars, segVars, annVars, detVars, evalVars>>
SpecRelabel == InitRelabel /\ [][NextRelabel]_vars

InitAnn == AnnInit /\ RelabelIdle /\ DetIdle /\ EvalIdle
NextAnn ==
    \/ MakeValidationGraph /\ UNCHANGED <<gtVars, segVars, relabelVars, detVars, evalVars>>
    \/ AnnStart /\ UNCHANGED <<gtVars, segVars, relabelVars, detVars, evalVars>>
    \/ AnnGtNode /\ UNCHANGED <<gtVars, segVars, relabelVars, detVars, evalVars>>
    \/ AnnReturn /\ UNCHANGED <<gtVars, segVars, relabelVars, detVars, evalVars>>
SpecAnn == InitAnn /\ [][NextAnn]_vars

InitDet == GtIdle /\ SegIdle /\ TrackIdle /\ RelabelIdle /\ AnnIdle /\ DetInit /\ EvalIdle
NextDet ==
    \/ LoadDataset /\ UNCHANGED <<gtVars, segVars, trackVars, relabelVars, annVars, evalVars>>
    \/ Preprocess /\ UNCHANGED <<gtVars, segVars, trackVars, relabelVars, annVars, evalVars>>
    \/ PredictBatch /\ UNCHANGED <<gtVars, segVars, trackVars, relabelVars, annVars, evalVars>>
    \/ SaveArchive /\ UNCHANGED <<gtVars, segVars, trackVars, relabelVars, annVars, evalVars>>
    \/ LoadArchive /\ UNCHANGED <<gtVars, segVars, trackVars, relabelVars, annVars, evalVars>>
SpecDet == InitDet /\ [][NextDet]_vars

InitStages == StagesInit /\ AnnIdle /\ DetIdle
NextStages ==
    \/ StageAddCandEdges /\ UNCHANGED <<segVars, annVars, detVars>>
    \/ StageAddAppearIgnoreAttr /\ UNCHANGED <<segVars, annVars, detVars>>
    \/ StageAddDriftDistAttr /\ UNCHANGED <<segVars, annVars, detVars>>
    \/ StageAddGtAnnotations /\ UNCHANGED <<segVars, annVars, detVars>>
    \/ StageSolve /\ UNCHANGED <<segVars, annVars, detVars>>
    \/ StageRelabelSegmentation /\ UNCHANGED <<segVars, annVars, detVars>>
    \/ StageMakeGtDetections /\ UNCHANGED <<segVars, annVars, detVars>>
SpecStages == InitStages /\ [][NextStages]_vars

----------------------------------------------------------------------------
(* Claims about add_cand_edges (under Spec) *)

WithinDistance(G, u, v) ==
    Dist2(Pos(G, u), Pos(G, v)) <= max_edge_distance.v * max_edge_distance.v

\* C1: after add_cand_edges(cand_graph, D) every edge (u, v) has
\* t(v) = t(u) + 1 and its endpoints at Euclidean distance at most D; no
\* edge crosses a gap in the frames present.
C1_EdgesAdjacentAndShort ==
    pc = "edges_done" =>
        \A e \in Edges(cand_graph) :
            /\ FrameOf(cand_graph, e[2]) = FrameOf(cand_graph, e[1]) + 1
            /\ WithinDistance(cand_graph, e[1], e[2])

\* C2: after add_cand_edges(cand_graph, D) every pair u, v with
\* t(v) = t(u) + 1 at distance at most D is linked by the edge (u, v),
\* also for the frame pairs that come after a gap.
C2_AllAdjacentPairsLinked ==
    pc = "edges_done" =>
        \A u, v \in Nodes(cand_graph) :
            (/\ FrameOf(cand_graph, v) = FrameOf(cand_graph, u) + 1
             /\ WithinDistance(cand_graph, u, v))
                => <<u, v>> \in Edges(cand_graph)

----------------------------------------------------------------------------
(* Claims about read_gt_tracks (under SpecGT) *)

RowId(row) == PyInt(row.id)
RowParent(row) == PyInt(row.parent_id)
RowsWithParent(table) == {i \in 1..Len(table) : RowParent(table[i]) # -1}
UniqueIds(table) ==
    \A i, j \in 1..Len(table) : RowId(table[i]) = RowId(table[j]) => i = j
\* C3: the graph read_gt_tracks returns has as many nodes as the table has
\* rows and as many edges as the table has rows with parent_id # -1, for
\* every table.
C3_NodeAndEdgeCounts ==
    gt_pc = "done" =>
        /\ Cardinality(Nodes(gt_tracks)) = Len(rows)
        /\ Cardinality(Edges(gt_tracks)) = Cardinality(RowsWithParent(rows))

\* C4: in the graph read_gt_tracks returns, the edge A -> B exists exactly
\* when a row with id B has parent_id A, A # -1; there is no other edge.
C4_EdgesAreParentLinks ==
    gt_pc = "done" =>
        \A A, B \in GtIds \cup Nodes(gt_tracks) \cup {-1} :
            <<A, B>> \in Edges(gt_tracks)
                <=> (A # -1 /\ \E i \in 1..Len(rows) :
                                  RowId(rows[i]) = B /\ RowParent(rows[i]) = A)

C4_Witness ==
    /\ gt_pc = "done"
    /\ Cardinality(Edges(gt_tracks)) = 2
    /\ \E i \in 1..Len(rows) : RowParent(rows[i]) = -1

\* C5: read_gt_tracks does not depend on the order of the rows: every
\* permutation of a table with unique ids yields the same nodes, edges and
\* attributes, and every node with a row carries an int t and float x, y.
C5_RowOrderIndependent ==
    (gt_pc = "done" /\ UniqueIds(rows)) =>
        /\ \A p \in Permutations(1..Len(rows)) :
              ReadGtTracks([i \in 1..Len(rows) |-> rows[p[i]]]) = gt_tracks
        /\ \A i \in 1..Len(rows) :
              LET data == gt_tracks.node[RowId(rows[i])]
              IN  /\ {"t", "x", "y"} \subseteq DOMAIN data
                  /\ data["t"] = PyIntV(PyInt(rows[i].time))
                  /\ data["x"] = PyFloat(rows[i].x)
                  /\ data["y"] = PyFloat(rows[i].y)

\* a child's row comes before its parent's row
C5_Witness ==
    /\ gt_pc = "done"
    /\ UniqueIds(rows)
    /\ \E i, j \in 1..Len(rows) :
          i < j /\ RowParent(rows[i]) = RowId(rows[j])

\* C6: a table with two rows of the same id makes read_gt_tracks fail: it
\* returns no graph.
C6_DuplicateIdFails ==
    ~UniqueIds(rows) => gt_pc # "done"

\* C7: every node of the graph read_gt_tracks returns has at most one
\* incoming edge, for every table.
C7_AtMostOneParent ==
    gt_pc = "done" =>
        \A n \in Nodes(gt_tracks) : Cardinality(predecessors(gt_tracks, n)) <= 1

----------------------------------------------------------------------------
(* Claims about nodes_from_segmentation (under SpecSeg) *)

\* the frames (0-based) of the volume in which a label occurs
FramesOfLabel(seg, label) ==
    {t \in 0..(Len(seg) - 1) : \E p \in SegPixels : seg[t + 1][p] = label}
PositiveLabels(seg) ==
    {l \in 1..MaxLabel : FramesOfLabel(seg, l) # {}}
LabelReused(seg) ==
    \E l \in PositiveLabels(seg) : Cardinality(FramesOfLabel(seg, l)) > 1
FirstFrameOf(seg, label) ==
    CHOOSE t \in FramesOfLabel(seg, label) : \A o \in FramesOfLabel(seg, label) : t <= o

\* C8: for a volume with k distinct positive labels, none in two frames,
\* nodes_from_segmentation returns k nodes and no edge; the node of label L
\* has id L and t the index of the frame holding L; label 0 is no node.
C8_OneNodePerLabel ==
    (seg_pc = "done" /\ ~LabelReused(segmentation)) =>
        /\ Nodes(seg_graph) = PositiveLabels(segmentation)
        /\ Cardinality(Nodes(seg_graph)) = Cardinality(PositiveLabels(segmentation))
        /\ Edges(seg_graph) = {}
        /\ 0 \notin Nodes(seg_graph)
        /\ \A l \in Nodes(seg_graph) :
              /\ seg_graph.node[l]["t"].ty = "int"
              /\ FramesOfLabel(segmentation, l) = {seg_graph.node[l]["t"].v}

\* two labels in different frames, and background pixels in the volume
C8_Witness ==
    /\ seg_pc = "done"
    /\ Cardinality(Nodes(seg_graph)) = 2
    /\ \E a, b \in Nodes(seg_graph) :
          seg_graph.node[a]["t"].v # seg_graph.node[b]["t"].v
    /\ \E t \in 1..Len(segmentation) : \E p \in SegPixels : segmentation[t][p] = 0

\* C9: a positive label that occurs in two frames makes
\* nodes_from_segmentation raise at its second occurrence: no graph is
\* returned, and no node added earlier has its attributes overwritten.
C9_ReusedLabelRaises ==
    /\ LabelReused(segmentation) => seg_pc # "done"
    /\ seg_pc = "AssertionError" =>
          /\ props # <<>>
          /\ seg_t \in FramesOfLabel(segmentation, Head(props).label)
          /\ FirstFrameOf(segmentation, Head(props).label) < seg_t
          /\ \A l \in PositiveLabels(segmentation) :
                \A t \in FramesOfLabel(segmentation, l) :
                    (t < seg_t \/ (t = seg_t /\ l < Head(props).label))
                        => FirstFrameOf(segmentation, l) = t
    /\ \A n \in Nodes(seg_graph) :
          /\ n \in PositiveLabels(segmentation)
          /\ seg_graph.node[n] =
                RegionAttrs(FirstFrameOf(segmentation, n),
                            [label |-> n,
                             centroid |-> Centroid(
                                 segmentation[FirstFrameOf(segmentation, n) + 1], n)])

C9_Witness ==
    /\ seg_pc = "AssertionError"
    /\ Cardinality(Nodes(seg_graph)) = 2

----------------------------------------------------------------------------
(* Claims about the solves (under Spec) *)

\* the node reached from n by following incoming edges k times, while any
RECURSIVE RootOf(_, _, _)
RootOf(G, n, k) ==
    IF k = 0 \/ predecessors(G, n) = {} THEN n
    ELSE RootOf(G, CHOOSE u \in predecessors(G, n) : TRUE, k - 1)

\* C10: every solution graph a solve returns has in-degree <= 1 and
\* out-degree <= 2 at every node, every edge goes from a node of frame t to
\* a node of frame t + 1, and every node hangs on a tree rooted at a node of
\* in-degree 0.
C10_SolutionIsForestOfTracks ==
    solver # "none" =>
        /\ \A n \in Nodes(solution_graph) :
              /\ Cardinality(predecessors(solution_graph, n)) <= 1
              /\ Cardinality(successors(solution_graph, n)) <= 2
              /\ predecessors(solution_graph,
                              RootOf(solution_graph, n,
                                     Cardinality(Nodes(solution_graph)))) = {}
        /\ \A e \in Edges(solution_graph) :
              FrameOf(solution_graph, e[2]) = FrameOf(solution_graph, e[1]) + 1

----------------------------------------------------------------------------
(* Claims about the solves (under Spec) *)

\* the positions of the notebook right after a solve: cand_graph is the graph
\* the solution was solved from
Solved == {"basic_solved", "basic_resolved", "appear_solved", "drift_solved",
           "ssvm_solved"}

\* the selection a solution graph stands for
SelectionOf(S) == [n |-> Nodes(S), e |-> Edges(S)]

\* C11: every solution graph is a subgraph of the candidate graph it was
\* solved from: its nodes and edges are candidate nodes and edges (with the
\* candidate's attributes right after the solve), and an edge is in the
\* solution only if both its endpoint nodes are.
C11_SolutionIsSubgraph ==
    solver # "none" =>
        /\ Nodes(solution_graph) \subseteq Nodes(cand_graph)
        /\ Edges(solution_graph) \subseteq Edges(cand_graph)
        /\ \A e \in Edges(solution_graph) :
               e[1] \in Nodes(solution_graph) /\ e[2] \in Nodes(solution_graph)
        /\ pc \in Solved =>
               /\ \A n \in Nodes(solution_graph) :
                      solution_graph.node[n] = cand_graph.node[n]
               /\ \A e \in Edges(solution_graph) :
                      solution_graph.edge[e] = cand_graph.edge[e]

\* a solve returned a proper subgraph that has an edge
C11_Witness ==
    /\ pc = "basic_solved"
    /\ Edges(solution_graph) # {}
    /\ Nodes(solution_graph) # Nodes(cand_graph)

\* no negative weight or constant in any cost term
NonNegative(costs) ==
    costs.weight >= 0 /\ costs.constant >= 0 /\ costs.appear >= 0 /\ costs.split >= 0

TrackStarts(sel) == {n \in sel.n : SelParents(sel, n) = {}}
FlaggedIgnoreAppear(G, n) ==
    "ignore_appear" \in DOMAIN G.node[n] /\ G.node[n]["ignore_appear"] = TRUE
UnflaggedStarts(G, sel) == {n \in TrackStarts(sel) : ~FlaggedIgnoreAppear(G, n)}

\* C13 (as claimed): in every solver configuration the objective charges the
\* appear constant once per selected node with no selected incoming edge,
\* except the nodes whose ignore_appear is True, which are not charged.
C13_AppearChargedExceptIgnored ==
    pc \in Solved =>
        AppearCharge(cand_graph, solver_costs, SelectionOf(solution_graph))
            = solver_costs.appear * FScale
                * Cardinality(UnflaggedStarts(cand_graph, SelectionOf(solution_graph)))

\* C13 (amended): the boundary-aware, drift-aware and weight-learning
\* configurations charge the appear constant once per selected node with no
\* selected incoming edge whose ignore_appear is not True; the basic
\* configuration charges it once per selected node with no selected incoming
\* edge, whatever its ignore_appear.
C13_AppearChargedByConfiguration ==
    pc \in Solved =>
        AppearCharge(cand_graph, solver_costs, SelectionOf(solution_graph))
            = solver_costs.appear * FScale
                * Cardinality(IF solver = "basic"
                              THEN TrackStarts(SelectionOf(solution_graph))
                              ELSE UnflaggedStarts(cand_graph,
                                                   SelectionOf(solution_graph)))

\* a solve with an ignore_attribute selected a flagged track start and an
\* unflagged one
C13_Witness ==
    /\ pc \in Solved
    /\ solver # "basic"
    /\ solver_costs.appear > 0
    /\ LET sel == SelectionOf(solution_graph)
       IN  /\ UnflaggedStarts(cand_graph, sel) # {}
           /\ TrackStarts(sel) \ UnflaggedStarts(cand_graph, sel) # {}

----------------------------------------------------------------------------
(* Claims about the feature tags (under Spec) *)

\* the positions of the notebook after add_appear_ignore_attr has run
Tagged == {"appear_done", "basic_resolved", "appear_solved", "drift_done",
           "drift_solved", "ssvm_solved"}

\* C14: after add_appear_ignore_attr, with the boundary 710, every node with
\* t = 0 or x >= 710 has ignore_appear = True, and every other node has
\* ignore_appear absent or false.
C14_IgnoreAppearAtStartAndBoundary ==
    pc \in Tagged =>
        \A n \in Nodes(cand_graph) :
            LET attrs == cand_graph.node[n]
            IN  IF attrs["t"].v = 0 \/ attrs["x"].v >= 710 * FScale
                THEN "ignore_appear" \in DOMAIN attrs /\ attrs["ignore_appear"] = TRUE
                ELSE "ignore_appear" \notin DOMAIN attrs \/ attrs["ignore_appear"] = FALSE

\* a tagged graph with a later node on the boundary, a later node short of it
\* and a first-frame node short of it
C14_Witness ==
    /\ pc = "appear_done"
    /\ \E n \in Nodes(cand_graph) :
          FrameOf(cand_graph, n) > 0 /\ Pos(cand_graph, n)[1] = 710 * FScale
    /\ \E n \in Nodes(cand_graph) :
          FrameOf(cand_graph, n) > 0 /\ Pos(cand_graph, n)[1] < 710 * FScale
    /\ \E n \in Nodes(cand_graph) :
          FrameOf(cand_graph, n) = 0 /\ Pos(cand_graph, n)[1] < 710 * FScale

\* the positions of the notebook after add_drift_dist_attr has run
DriftTagged == {"drift_done", "drift_solved", "ssvm_solved"}

\* the square of the Euclidean norm of (pos(u) + d) - pos(v), in grid units
DriftOffset2(G, d, e) ==
    Dist2(<<Pos(G, e[1])[1] + d[1] * FScale, Pos(G, e[1])[2] + d[2] * FScale>>,
          Pos(G, e[2]))

\* C15: after add_drift_dist_attr(cand_graph, d) every edge (u, v) carries a
\* float drift_dist that is the Euclidean norm of (pos(u) + d) - pos(v), to
\* the resolution of the grid: with d = (-10, 0), an edge to a node at
\* pos(u) + (-10, 0) carries 0 and an edge to a node at pos(u) carries 10.
C15_DriftDistIsOffsetNorm ==
    pc \in DriftTagged =>
        \A e \in Edges(cand_graph) :
            /\ "drift_dist" \in DOMAIN cand_graph.edge[e]
            /\ LET dd == cand_graph.edge[e]["drift_dist"]
               IN  /\ dd.ty = "float"
                   /\ dd.v >= 0
                   /\ dd.v * dd.v <= DriftOffset2(cand_graph, drift, e)
                   /\ DriftOffset2(cand_graph, drift, e) < (dd.v + 1) * (dd.v + 1)
                   /\ Pos(cand_graph, e[2]) = <<Pos(cand_graph, e[1])[1] - 10 * FScale,
                                                Pos(cand_graph, e[1])[2]>>
                          => dd.v = 0
                   /\ Pos(cand_graph, e[1]) = Pos(cand_graph, e[2]) => dd.v = 10 * FScale

\* a tagged graph with an edge to a node displaced by (-10, 0) and an edge
\* between two nodes at the same position
C15_Witness ==
    /\ pc = "drift_done"
    /\ \E e \in Edges(cand_graph) :
          /\ Pos(cand_graph, e[2]) = <<Pos(cand_graph, e[1])[1] - 10 * FScale,
                                       Pos(cand_graph, e[1])[2]>>
          /\ cand_graph.edge[e]["drift_dist"].v = 0
    /\ \E e \in Edges(cand_graph) :
          /\ Pos(cand_graph, e[1]) = Pos(cand_graph, e[2])
          /\ cand_graph.edge[e]["drift_dist"].v = 10 * FScale

----------------------------------------------------------------------------
(* Claims about relabel_segmentation (under SpecRelabel) *)

\* C16: in the volume relabel_segmentation returns, every pixel of a
\* detection whose node is in the solution graph carries that node's
\* tracklet_id, and every pixel that is background or belongs to a detection
\* absent from the solution graph is 0.
C16_RelabelledByTracklet ==
    pc = "relabelled" =>
        \A t \in DOMAIN segmentation :
            \A p \in SegPixels :
                LET label == segmentation[t][p]
                IN  IF label # 0 /\ label \in Nodes(solution_graph)
                    THEN tracked_masks[t][p]
                            = solution_graph.node[label]["tracklet_id"].v
                    ELSE tracked_masks[t][p] = 0

\* a returned volume where two linked detections carry one tracklet id, which
\* is not the label of one of them, and a detection outside the solution is
\* blanked
C16_Witness ==
    /\ pc = "relabelled"
    /\ \E e \in Edges(solution_graph) :
          /\ solution_graph.node[e[1]]["tracklet_id"]
                = solution_graph.node[e[2]]["tracklet_id"]
          /\ \E n \in {e[1], e[2]} :
                /\ solution_graph.node[n]["tracklet_id"].v # n
                /\ \E t \in DOMAIN segmentation : \E p \in SegPixels :
                      /\ segmentation[t][p] = n
                      /\ tracked_masks[t][p] = solution_graph.node[n]["tracklet_id"].v
    /\ \E t \in DOMAIN segmentation : \E p \in SegPixels :
          /\ segmentation[t][p] # 0
          /\ segmentation[t][p] \notin Nodes(solution_graph)
          /\ tracked_masks[t][p] = 0

----------------------------------------------------------------------------
(* Claims about add_gt_annotations (under SpecAnn) *)

\* the ground-truth nodes that sample candidate id c
MatchedTo(c) ==
    {g \in Nodes(gt_tracks) : get_cand_id(g, gt_tracks, segmentation) = c}
\* the candidate ids sampled by the true successors of the ground-truth nodes
\* matched to c
TrueSuccessorIds(c) ==
    {get_cand_id(h, gt_tracks, segmentation) :
        h \in UNION {successors(gt_tracks, g) : g \in MatchedTo(c)}}

\* C17: after add_gt_annotations, for every candidate node c matched by some
\* ground-truth node, each outgoing candidate edge (c, s) has gt = True if s
\* is the candidate id matched by a true successor of a ground-truth node
\* matched to c, and gt = False otherwise, also when two ground-truth nodes
\* sample the same candidate id.
C17_EdgeGtIffTrueSuccessor ==
    pc = "annotated" =>
        \A c \in Nodes(cand_graph) :
            MatchedTo(c) # {} =>
                \A s \in successors(cand_graph, c) :
                    /\ "gt" \in DOMAIN cand_graph.edge[<<c, s>>]
                    /\ cand_graph.edge[<<c, s>>]["gt"] = (s \in TrueSuccessorIds(c))

\* C18: after add_gt_annotations every node of the annotated graph has a
\* boolean gt, True exactly for the nodes whose id is sampled at some
\* ground-truth node's (t, x, y) and False for every other node; a sampled id
\* that is not in the graph adds no node (every node is a node of the
\* segmentation with its t, x, y).
C18_NodeGtIffSampled ==
    pc = "annotated" =>
        \A n \in Nodes(cand_graph) :
            /\ "gt" \in DOMAIN cand_graph.node[n]
            /\ cand_graph.node[n]["gt"] \in BOOLEAN
            /\ cand_graph.node[n]["gt"] = (n # 0 /\ MatchedTo(n) # {})
            /\ n \in Nodes(nodes_from_segmentation(segmentation))
            /\ \A a \in {"t", "x", "y"} :
                  /\ a \in DOMAIN cand_graph.node[n]
                  /\ cand_graph.node[n][a] = nodes_from_segmentation(segmentation).node[n][a]

\* an annotated graph with a sampled node, a node no ground-truth node
\* samples, and a sampled id of the segmentation that is not in the graph
C18_Witness ==
    /\ pc = "annotated"
    /\ \E n \in Nodes(cand_graph) : cand_graph.node[n]["gt"] = TRUE
    /\ \E n \in Nodes(cand_graph) : cand_graph.node[n]["gt"] = FALSE
    /\ \E g \in Nodes(gt_tracks) :
          /\ get_cand_id(g, gt_tracks, segmentation) # 0
          /\ get_cand_id(g, gt_tracks, segmentation) \notin Nodes(cand_graph)

----------------------------------------------------------------------------
(* Claims about the detection notebook (under SpecDet) *)

\* the positions of the detection notebook past its loading cell
PastLoading == {"loaded", "preprocessed", "predicted", "saved", "SyntaxError"}

\* C19: when the image series and the ground-truth label series have
\* different frame counts, the loading cell fails, before preprocessing or
\* detection runs.
C19_FrameCountMismatchFails ==
    Len(image_files) # Len(gt_files) => det_pc \notin PastLoading

\* the entry of a loaded archive for frame i of a per-frame list
FrameEntry(entry, i) == entry.data[i]
\* the positions of the detection notebook once the cell that loads the
\* archive has been run
ArchiveCellRan == {"archive_loaded", "SyntaxError"}

\* C20: once the save cell and the load cell have run, the loaded archive
\* holds the four entries with the shapes and values of the batch outputs,
\* the per-frame grouping of centers and center_probs preserved.
C20_ArchiveRoundTrip ==
    det_pc \in ArchiveCellRan =>
        /\ det # Undefined
        /\ det.detections = detections
        /\ det.prob_maps = prob_maps
        /\ \A i \in 1..Len(centers) :
              /\ FrameEntry(det.centers, i) = centers[i].data
              /\ FrameEntry(det.center_probs, i) = center_probs[i].data

----------------------------------------------------------------------------
(* Claims about the order of the stages (under SpecPasses) *)

\* the edges of G that carry drift_dist
WithDriftDist(G) == {e \in Edges(G) : "drift_dist" \in DOMAIN G.edge[e]}

\* the whole-function add_cand_edges agrees with the loop of the notebook's
\* call: at its return the graph is what the function makes of its nodes
EdgesLoopIsAddCandEdges ==
    pc = "edges_done" =>
        cand_graph = add_cand_edges([node |-> cand_graph.node, edge |-> <<>>],
                                    max_edge_distance)

\* C21: when the stages run in the documented order (nodes, add_cand_edges,
\* the feature tags, solve), every edge of the candidate graph carries
\* drift_dist when solve_drift_optimization is invoked, and the solve reads
\* it; when add_drift_dist_attr runs before add_cand_edges, no edge carries
\* drift_dist when the solve is invoked, and the solve of a graph that has an
\* edge fails on the missing attribute.
C21_DriftDistPresentInDocumentedOrder ==
    /\ pc \in {"drift_done", "drift_solved"} =>
          WithDriftDist(cand_graph) = Edges(cand_graph)
    /\ pc \in {"edges_late", "drift_solved_late"} =>
          WithDriftDist(cand_graph) = {}
    /\ pc = "drift_solved_late" => Edges(cand_graph) = {}
    /\ (pc = "KeyError" /\ solver = "none") =>
          /\ Edges(cand_graph) # {}
          /\ WithDriftDist(cand_graph) = {}

\* add_drift_dist_attr ran first, add_cand_edges then linked two nodes, and
\* solve_drift_optimization was invoked
C21_Witness ==
    /\ pc = "KeyError"
    /\ solver = "none"
    /\ Cardinality(Edges(cand_graph)) >= 2

----------------------------------------------------------------------------
(* Claims about the stages after node creation (under SpecStages) *)

\* node n keeps its t, x and y from graph G to graph H
KeepsTXY(G, H, n) ==
    /\ n \in Nodes(H)
    /\ \A a \in {"t", "x", "y"} :
          a \in DOMAIN G.node[n] =>
              a \in DOMAIN H.node[n] /\ H.node[n][a] = G.node[n][a]

\* C22: no call of add_cand_edges, add_appear_ignore_attr,
\* add_drift_dist_attr, add_gt_annotations, relabel_segmentation or
\* make_gt_detections, in any order after node creation, changes the t, x or
\* y of a node of the graph it mutates (candidate graph, solution graph,
\* ground-truth graph), and a node of a solution graph carries the t, x, y of
\* its candidate node.
C22_NodeTXYKept ==
    [][/\ \A n \in Nodes(cand_graph) : KeepsTXY(cand_graph, cand_graph', n)
       /\ \A n \in Nodes(gt_tracks) : KeepsTXY(gt_tracks, gt_tracks', n)
       /\ \A n \in Nodes(solution_graph') :
             /\ KeepsTXY(cand_graph', solution_graph', n)
             /\ n \in Nodes(solution_graph) =>
                   KeepsTXY(solution_graph, solution_graph', n)]_vars

\* every stage has acted: an edge carries drift_dist and gt, a node carries
\* ignore_appear and gt, a solution node its tracklet_id, a ground-truth node
\* its label
C22_Witness ==
    /\ pc = "stages"
    /\ \E e \in Edges(cand_graph) : {"drift_dist", "gt"} \subseteq DOMAIN cand_graph.edge[e]
    /\ \E n \in Nodes(cand_graph) :
          /\ {"ignore_appear", "gt"} \subseteq DOMAIN cand_graph.node[n]
          /\ cand_graph.node[n]["gt"] = TRUE
    /\ \E n \in Nodes(solution_graph) : "tracklet_id" \in DOMAIN solution_graph.node[n]
    /\ \E n \in Nodes(gt_tracks) : "label" \in DOMAIN gt_tracks.node[n]
    /\ gt_dets # <<>>

----------------------------------------------------------------------------
(* Claims about get_cand_id and the validation graph (under SpecAnn) *)

\* a pass of the first loop has run, and the ground-truth node it visited
PassRan ==
    /\ pc \in {"annotate_loop", "annotated"}
    /\ Len(ann_todo) < Cardinality(Nodes(gt_tracks))
LastGtNode ==
    SortedSeq(Nodes(gt_tracks))[Cardinality(Nodes(gt_tracks)) - Len(ann_todo)]

\* the integers nearest to a non-negative float (two of them at a half)
NearestInts(f) ==
    {i \in 0..(f.v \div FScale + 1) :
        2 * (f.v - i * FScale) <= FScale /\ 2 * (i * FScale - f.v) <= FScale}
\* i <= f < i + 1
IntegerPartIs(f, i) == i * FScale <= f.v /\ f.v < (i + 1) * FScale

\* C23 as stated: get_cand_id samples the segmentation at frame t and at the
\* ground-truth node's x and y rounded to the nearest integer, for
\* non-negative x and y.
C23_SamplesRoundedCoordinates ==
    PassRan =>
        LET data == gt_tracks.node[LastGtNode]
        IN  \E p \in SegPixels :
                /\ p[1] \in NearestInts(data["x"])
                /\ p[2] \in NearestInts(data["y"])
                /\ last_cand_id = segmentation[data["t"].v + 1][p]

\* C23, amended: get_cand_id samples the segmentation at frame t and at the
\* integer parts of the ground-truth node's x and y (int() truncates), for
\* non-negative x and y: x = 3.7 samples row 3.
C23_SamplesTruncatedCoordinates ==
    PassRan =>
        LET data == gt_tracks.node[LastGtNode]
        IN  \E p \in SegPixels :
                /\ IntegerPartIs(data["x"], p[1])
                /\ IntegerPartIs(data["y"], p[2])
                /\ last_cand_id = segmentation[data["t"].v + 1][p]

\* a pass sampled for a ground-truth node whose y is just short of 1, in a
\* frame whose pixels (0, 0) and (0, 1) carry different labels: it got the
\* label of (0, 0)
C23_Witness ==
    /\ PassRan
    /\ LET data == gt_tracks.node[LastGtNode]
           frame == segmentation[data["t"].v + 1]
       IN  /\ data["y"].v = FScale - 1
           /\ frame[<<0, 0>>] # 0
           /\ frame[<<0, 1>>] # 0
           /\ frame[<<0, 0>>] # frame[<<0, 1>>]
           /\ last_cand_id = frame[<<0, 0>>]

\* node n of G lies in the window of validation_times
InWindow(G, n) ==
    validation_times[1] <= FrameOf(G, n) /\ FrameOf(G, n) < validation_times[2]

\* C24: the validation graph holds exactly the candidate nodes of the window
\* [validation_times[0], validation_times[1]) and exactly the candidate edges
\* with both endpoints in it, each with the attributes it has in the
\* candidate graph when the copy is made; add_gt_annotations on the
\* validation graph adds no gt to a node or edge of the notebook's candidate
\* graph.
C24_ValidationGraphIsWindowCopy ==
    /\ pc = "annotate" =>
          /\ Nodes(cand_graph) \subseteq Nodes(notebook_cand_graph)
          /\ Edges(cand_graph) \subseteq Edges(notebook_cand_graph)
          /\ \A n \in Nodes(notebook_cand_graph) :
                n \in Nodes(cand_graph) <=> InWindow(notebook_cand_graph, n)
          /\ \A e \in Edges(notebook_cand_graph) :
                e \in Edges(cand_graph)
                    <=> (InWindow(notebook_cand_graph, e[1])
                         /\ InWindow(notebook_cand_graph, e[2]))
          /\ \A n \in Nodes(cand_graph) :
                cand_graph.node[n] = notebook_cand_graph.node[n]
          /\ \A e \in Edges(cand_graph) :
                cand_graph.edge[e] = notebook_cand_graph.edge[e]
    /\ pc \in {"annotate", "annotate_loop", "annotated"} =>
          /\ \A n \in Nodes(notebook_cand_graph) :
                "gt" \notin DOMAIN notebook_cand_graph.node[n]
          /\ \A e \in Edges(notebook_cand_graph) :
                "gt" \notin DOMAIN notebook_cand_graph.edge[e]

\* the window left out a node and an edge of the candidate graph, and the
\* annotation marked a node of the validation graph gt = True and another
\* gt = False
C24_Witness ==
    /\ pc = "annotated"
    /\ Nodes(cand_graph) # Nodes(notebook_cand_graph)
    /\ Edges(cand_graph) # Edges(notebook_cand_graph)
    /\ \E n \in Nodes(cand_graph) : cand_graph.node[n]["gt"] = TRUE
    /\ \E n \in Nodes(cand_graph) : cand_graph.node[n]["gt"] = FALSE

----------------------------------------------------------------------------
(* Claims about running a mutation pass twice (under SpecPasses) *)

\* the positions right after the second call of a pass
Redone == {"edges_redone", "appear_redone", "drift_redone"}

\* C25: add_cand_edges (same max_edge_distance), add_appear_ignore_attr and
\* add_drift_dist_attr (same drift), called a second time on the graph the
\* first call produced, leave the nodes, the edges and all attributes as they
\* are.
C25_MutationPassesIdempotent ==
    [][pc' \in Redone => cand_graph' = cand_graph]_vars

\* add_drift_dist_attr has run twice on a graph with edges, whose nodes are
\* tagged ignore_appear in part, one of them for its x alone
C25_Witness ==
    /\ pc = "drift_redone"
    /\ \E e \in Edges(cand_graph) : "drift_dist" \in DOMAIN cand_graph.edge[e]
    /\ \E n \in Nodes(cand_graph) :
          /\ FrameOf(cand_graph, n) > 0
          /\ "ignore_appear" \in DOMAIN cand_graph.node[n]
    /\ \E n \in Nodes(cand_graph) : "ignore_appear" \notin DOMAIN cand_graph.node[n]

====
